---- MODULE Spec2Model ----
(***************************************************************************)
(* A model of the COMTRADE parser (crate `comtrade`): the configuration    *)
(* grammar parser (parser/cfg/mod.rs), the timestamp reconstructor         *)
(* (parser/time.rs), the data decoder (parser/dat.rs) and parse()          *)
(* (parser/mod.rs).                                                        *)
(*                                                                         *)
(* Rust values are modelled as follows.                                    *)
(*   Option<T>     None == [some |-> FALSE], Some(v) == [some |-> TRUE, ..] *)
(*   Result<T, E>  Ok(v), Err(kind); a panic (unwrap on None/Err, integer   *)
(*                 overflow with overflow checks on) is Panic(at)          *)
(*   u32           a pair of 16-bit limbs [hi, lo], so that 0xFFFFFFFF and *)
(*                 a wrapped subtraction keep their 32-bit width           *)
(*   f64           an exact ratio [hi, lo, den] = (hi * 2^16 + lo) / den   *)
(***************************************************************************)
EXTENDS Integers, Sequences, FiniteSets, TLC

VARIABLES
    overflow_checks, \* build profile: TRUE = debug (overflow panics), FALSE = release (wraps)
    files,           \* the streams handed to ComtradeParserBuilder
    self,            \* the ComtradeParser struct (with its ComtradeBuilder)
    pc,              \* position of parse() in its code
    loc,             \* locals of the running function (line iterator, cursor, row vectors)
    outcome,         \* what parse() returned, or that it panicked
    call             \* last call of a pure function: its arguments and its result

vars == <<overflow_checks, files, self, pc, loc, outcome, call>>

----------------------------------------------------------------------------
(* Bounds of the model.                                                     *)

MaxSample == 4
MaxSegments == 2
MaxTokenLen == 5

----------------------------------------------------------------------------
(* Option, Result, panic.                                                   *)

None == [some |-> FALSE]
Some(v) == [some |-> TRUE, v |-> v]

Ok(v) == [tag |-> "Ok", v |-> v]
Err(kind) == [tag |-> "Err", kind |-> kind]
Panic(at) == [tag |-> "Panic", at |-> at]

IsOk(r) == r.tag = "Ok"

----------------------------------------------------------------------------
(* u32 as two 16-bit limbs.                                                 *)

Limb == 2 ^ 16

U32(n) == [hi |-> n \div Limb, lo |-> n % Limb]

\* parser/mod.rs: const TIMESTAMP_MISSING: u32 = 0xffffffff
TIMESTAMP_MISSING == [hi |-> Limb - 1, lo |-> Limb - 1]

\* x <= n for a u32 x and a small natural n (`sample_number <= r.end_sample_number`)
U32LeqNat(x, n) == x.hi * Limb + x.lo <= n

\* `sample_number - 1` on u32: the difference modulo 2^32, and whether it overflowed
U32Sub1(x) ==
    IF x.hi = 0 /\ x.lo = 0
    THEN [overflow |-> TRUE, v |-> [hi |-> Limb - 1, lo |-> Limb - 1]]
    ELSE IF x.lo = 0
         THEN [overflow |-> FALSE, v |-> [hi |-> x.hi - 1, lo |-> Limb - 1]]
         ELSE [overflow |-> FALSE, v |-> [hi |-> x.hi, lo |-> x.lo - 1]]

----------------------------------------------------------------------------
(* f64 as an exact ratio.                                                   *)

Ratio(x, den) == [hi |-> x.hi, lo |-> x.lo, den |-> den]

\* x * k / den for a u32 x and small naturals k, den
RatioTimes(x, k, den) ==
    LET p == x.lo * k
    IN [hi |-> x.hi * k + p \div Limb, lo |-> p % Limb, den |-> den]

RatioLeq(a, b) ==
    /\ a.hi = 0 /\ b.hi = 0
    /\ a.lo * b.den <= b.lo * a.den

----------------------------------------------------------------------------
(* parser/time.rs: the timestamp reconstructor.                             *)

\* parser/cfg/date_time.rs TimePrecision::to_value, as the denominator of the unit
Microseconds == 1000000
Nanoseconds == 1000000000

RECURSIVE FindRate(_, _, _)
FindRate(rates, sample_number, i) ==
    IF i > Len(rates) THEN None
    ELSE IF U32LeqNat(sample_number, rates[i].end_sample_number)
         THEN Some(rates[i])
         ELSE FindRate(rates, sample_number, i + 1)

FallbackRate == 1

sampling_rate_for_sample(p, sample_number) ==
    LET maybe_rate == FindRate(p.builder.sampling_rates.v, sample_number, 1)
    IN IF maybe_rate.some THEN maybe_rate.v.rate_hz ELSE FallbackRate

real_time(p, checks, sample_number, timestamp) ==
    IF ~p.is_timestamp_critical \/ ~timestamp.some
    THEN LET sampling_rate == sampling_rate_for_sample(p, sample_number)
             d == U32Sub1(sample_number)
         IN IF d.overflow /\ checks
            THEN Panic("attempt to subtract with overflow")
            ELSE Ok(Ratio(d.v, sampling_rate))
    ELSE IF timestamp.some
         THEN LET multiplier ==
                      IF p.builder.timestamp_multiplication_factor.some
                      THEN p.builder.timestamp_multiplication_factor.v
                      ELSE 1
              IN Ok(RatioTimes(timestamp.v, multiplier, p.ts_base_unit))
         ELSE Err("timestamp is critical but not present")

----------------------------------------------------------------------------
(* lib.rs: ComtradeBuilder (derive_builder): every field of Comtrade as an  *)
(* Option, None until its setter is called.  parser/mod.rs: the parser.     *)

BuilderFields ==
    {"station_name", "recording_device_id", "revision", "sample_numbers",
     "timestamps", "analog_channels", "status_channels", "line_frequency",
     "sampling_rates", "start_time", "trigger_time", "data_format",
     "timestamp_multiplication_factor", "time_offset", "local_offset",
     "time_quality", "leap_second_status"}

ComtradeBuilder_default == [f \in BuilderFields |-> None]

\* A text buffer is the sequence of its lines (what split('\n') yields), a line
\* the sequence of its comma-separated fields, a field a sequence of characters.
\* String::new() splits into one line holding one empty field.
EmptyString == << << <<>> >> >>

ComtradeParser_new ==
    [cfg_contents |-> EmptyString,
     ascii_dat_contents |-> EmptyString,
     binary_dat_contents |-> <<>>,
     hdr_contents |-> EmptyString,
     inf_contents |-> EmptyString,
     builder |-> ComtradeBuilder_default,
     total_num_samples |-> 0,
     num_analog_channels |-> 0,
     num_status_channels |-> 0,
     analog_channels |-> <<>>,
     status_channels |-> <<>>,
     is_timestamp_critical |-> FALSE,
     ts_base_unit |-> 0,
     data_format |-> None]

----------------------------------------------------------------------------
(* The timestamp reconstructor on its own: the parser as parse_cfg leaves   *)
(* it (a non-empty sampling-rate table, since parse_cfg does not return     *)
(* with an empty one), then calls of real_time.                             *)

RateValues == {1, 4}

SamplingRate == [rate_hz : RateValues, end_sample_number : 1..MaxSample]

RateTables == UNION {[1..k -> SamplingRate] : k \in 1..MaxSegments}

MultValues == {1, 2}

StoredTimestamps == {None, Some(U32(0)), Some(U32(3))}

NoCall == [fn |-> "none"]

InitTime ==
    /\ overflow_checks \in BOOLEAN
    /\ files = None
    /\ \E table \in RateTables, unit \in {Microseconds, Nanoseconds},
          mult \in {None} \cup {Some(m) : m \in MultValues} :
          self = [ComtradeParser_new EXCEPT
                     !.builder = [@ EXCEPT !.sampling_rates = Some(table),
                                           !.timestamp_multiplication_factor = mult],
                     !.is_timestamp_critical = (Len(table) = 0),
                     !.ts_base_unit = unit]
    /\ pc = "cfg_done"
    /\ loc = None
    /\ outcome = None
    /\ call = NoCall

CallRealTime ==
    /\ pc = "cfg_done"
    /\ call = NoCall
    /\ \E n \in 0..(MaxSample + 1), ts \in StoredTimestamps :
          call' = [fn |-> "real_time", sample_number |-> U32(n), timestamp |-> ts,
                   result |-> real_time(self, overflow_checks, U32(n), ts)]
    /\ UNCHANGED <<overflow_checks, files, self, pc, loc, outcome>>

NextTime == CallRealTime

SpecTime == InitTime /\ [][NextTime]_vars

----------------------------------------------------------------------------
(* Characters and str::parse for integers.                                  *)

Digits == <<"0", "1", "2", "3", "4", "5", "6", "7", "8", "9">>

IsDigit(c) == \E i \in 1..Len(Digits) : Digits[i] = c

DigitValue(c) == (CHOOSE i \in 1..Len(Digits) : Digits[i] = c) - 1

RECURSIVE DigitsValue(_, _)
DigitsValue(s, acc) ==
    IF s = <<>> THEN acc ELSE DigitsValue(Tail(s), acc * 10 + DigitValue(Head(s)))

AllDigits(s) == Len(s) > 0 /\ \A i \in 1..Len(s) : IsDigit(s[i])

\* str::parse::<u32>() / ::<usize>(): an optional '+', then at least one digit
ParseUnsigned(s) ==
    LET body == IF s # <<>> /\ Head(s) = "+" THEN Tail(s) ELSE s
    IN IF AllDigits(body) THEN Some(DigitsValue(body, 0)) ELSE None

\* str::parse::<i32>(): an optional '+' or '-', then at least one digit
ParseI32(s) ==
    LET signed == s # <<>> /\ Head(s) \in {"+", "-"}
        body == IF signed THEN Tail(s) ELSE s
    IN IF ~AllDigits(body) THEN None
       ELSE IF signed /\ Head(s) = "-"
            THEN Some(0 - DigitsValue(body, 0))
            ELSE Some(DigitsValue(body, 0))

UpperCase == <<"A", "B", "C", "D", "E", "F", "G", "H", "I", "J", "K", "L", "M",
               "N", "O", "P", "Q", "R", "S", "T", "U", "V", "W", "X", "Y", "Z">>

LowerCase == <<"a", "b", "c", "d", "e", "f", "g", "h", "i", "j", "k", "l", "m",
               "n", "o", "p", "q", "r", "s", "t", "u", "v", "w", "x", "y", "z">>

\* str::to_lowercase, on one character
Lower(c) ==
    IF \E i \in 1..Len(UpperCase) : UpperCase[i] = c
    THEN LowerCase[CHOOSE i \in 1..Len(UpperCase) : UpperCase[i] = c]
    ELSE c

\* the class [a-z] of a case-insensitive regular expression
IsLetter(c) == \E i \in 1..Len(LowerCase) : LowerCase[i] = Lower(c)

to_lowercase(s) == [i \in 1..Len(s) |-> Lower(s[i])]

\* str::split(sep): the pieces between the separators, at least one piece
RECURSIVE SplitAt(_, _, _, _)
SplitAt(s, sep, i, piece) ==
    IF i > Len(s) THEN <<piece>>
    ELSE IF s[i] = sep
         THEN <<piece>> \o SplitAt(s, sep, i + 1, <<>>)
         ELSE SplitAt(s, sep, i + 1, Append(piece, s[i]))

split(s, sep) == SplitAt(s, sep, 1, <<>>)

----------------------------------------------------------------------------
(* parser/time.rs: parse_time_offset.                                       *)

SecondsPerHour == 3600
SecondsPerMinute == 60
SecondsPerDay == 24 * SecondsPerHour

\* chrono FixedOffset::east(secs): panics unless -86400 < secs < 86400
FixedOffset_east(secs) ==
    IF secs > 0 - SecondsPerDay /\ secs < SecondsPerDay
    THEN Ok(Some(secs))
    ELSE Panic("FixedOffset::east out of bounds")

compound_offset(hours, minutes) ==
    IF hours > 0
    THEN hours * SecondsPerHour + minutes * SecondsPerMinute
    ELSE hours * SecondsPerHour - minutes * SecondsPerMinute

parse_time_offset(offset_str) ==
    LET time_value == offset_str
        maybe_hours == ParseI32(time_value)
        time_split == split(time_value, "h")
    IN IF to_lowercase(time_value) = <<"x">> THEN Ok(None)
       ELSE IF maybe_hours.some THEN FixedOffset_east(maybe_hours.v * SecondsPerHour)
       ELSE IF Len(time_split) # 2 THEN Err("invalid time offset on line")
       ELSE LET hours == ParseI32(time_split[1])
                minutes == ParseI32(time_split[2])
            IN IF ~hours.some THEN Err("invalid hour offset in time offset")
               ELSE IF ~minutes.some THEN Err("invalid minute offset in time offset")
               ELSE FixedOffset_east(compound_offset(hours.v, minutes.v))

----------------------------------------------------------------------------
(* parse_time_offset on its own: every token up to MaxTokenLen characters   *)
(* over the characters of the time-offset grammar.                          *)

OffsetChars == {"-", "+", "0", "3", "5", "h", "x", "X"}

OffsetTokens == UNION {[1..k -> OffsetChars] : k \in 0..MaxTokenLen}

InitOffset ==
    /\ overflow_checks \in BOOLEAN
    /\ files = None
    /\ self = ComtradeParser_new
    /\ pc = "idle"
    /\ loc = None
    /\ outcome = None
    /\ call = NoCall

CallParseTimeOffset ==
    /\ pc = "idle"
    /\ call = NoCall
    /\ \E tok \in OffsetTokens :
          call' = [fn |-> "parse_time_offset", offset_str |-> tok,
                   result |-> parse_time_offset(tok)]
    /\ UNCHANGED <<overflow_checks, files, self, pc, loc, outcome>>

NextOffset == CallParseTimeOffset

SpecOffset == InitOffset /\ [][NextOffset]_vars

----------------------------------------------------------------------------
(* Properties of the timestamp reconstructor (SpecTime).                    *)

RateTable == self.builder.sampling_rates.v

LargestEnd ==
    CHOOSE e \in {RateTable[i].end_sample_number : i \in DOMAIN RateTable} :
        \A i \in DOMAIN RateTable : RateTable[i].end_sample_number <= e

CalledRealTime == call.fn = "real_time"

\* the small natural a u32 argument of the call stands for
ArgValue(x) == x.hi * Limb + x.lo

\* rate_for(n) as the specification words it: the rate of the first segment,
\* in table order, whose end-sample-index is >= n, and 1.0 Hz when there is none
rate_for(n) ==
    LET hits == {i \in DOMAIN RateTable : RateTable[i].end_sample_number >= n}
    IN IF hits = {} THEN 1
       ELSE RateTable[CHOOSE i \in hits : \A j \in hits : i <= j].rate_hz

\* C6: for sample indices m <= n that each lie inside a rate segment
\* (1 <= index <= the largest end-sample-index), real_time(m, None) <=
\* real_time(n, None), also when m and n fall in different segments.
C6_NonDecreasingAcrossSegments ==
    (/\ CalledRealTime
     /\ ~call.timestamp.some
     /\ ArgValue(call.sample_number) \in 1..LargestEnd)
    => \A m \in 1..ArgValue(call.sample_number) :
          LET earlier == real_time(self, overflow_checks, U32(m), None)
          IN /\ IsOk(earlier)
             /\ IsOk(call.result)
             /\ RatioLeq(earlier.v, call.result.v)

\* C7: with a non-empty table (timestamp-critical mode false), real_time(n, ts)
\* equals (n - 1) / rate_for(n) for every stored timestamp ts, present or absent.
C7_RateDerivedTime ==
    (CalledRealTime /\ ~self.is_timestamp_critical /\ Len(RateTable) > 0)
    => /\ IsOk(call.result)
       /\ call.result.v.hi = 0
       /\ call.result.v.lo * rate_for(ArgValue(call.sample_number))
              = (ArgValue(call.sample_number) - 1) * call.result.v.den

----------------------------------------------------------------------------
(* Properties of parse_time_offset (SpecOffset).                            *)

CalledOffset == call.fn = "parse_time_offset"

\* a compound token <signed-hours>h<minutes>: the pieces around the single 'h'
IsCompound(tok) ==
    /\ Len(split(tok, "h")) = 2
    /\ ParseI32(split(tok, "h")[1]).some
    /\ AllDigits(split(tok, "h")[2])

CompoundHours(tok) == ParseI32(split(tok, "h")[1]).v
CompoundMinutes(tok) == DigitsValue(split(tok, "h")[2], 0)

\* the offset the claim gives a compound token
ClaimedOffset(tok) ==
    IF CompoundHours(tok) < 0
    THEN CompoundHours(tok) * 3600 - CompoundMinutes(tok) * 60
    ELSE CompoundHours(tok) * 3600 + CompoundMinutes(tok) * 60

InOneDay(secs) == secs > 0 - 86400 /\ secs < 86400

\* C8: a compound token <signed-hours>h<minutes> gives hours*3600 - minutes*60
\* when hours is negative and hours*3600 + minutes*60 otherwise, including when
\* hours is 0 (0h30 gives +1800); a bare integer gives hours*3600; x or X gives
\* unset.  Stated for offsets within one day and hours written without a
\* minus sign when they are 0.
C8_CompoundOffset ==
    CalledOffset =>
        LET tok == call.offset_str
        IN /\ (/\ IsCompound(tok)
               /\ InOneDay(ClaimedOffset(tok))
               /\ (CompoundHours(tok) = 0 => Head(tok) # "-"))
              => call.result = Ok(Some(ClaimedOffset(tok)))
           /\ (ParseI32(tok).some /\ InOneDay(ParseI32(tok).v * 3600))
              => call.result = Ok(Some(ParseI32(tok).v * 3600))
           /\ (tok = <<"x">> \/ tok = <<"X">>) => call.result = Ok(None)

----------------------------------------------------------------------------
(* parser/dat.rs, parse_dat_binary: the status words of one record.         *)

StatusGroupBits == 16

\* `as u8` saturates at u8::MAX
U8Max == 255

CeilDiv(a, b) == (a + b - 1) \div b

\* (self.num_status_channels as f32 / 16.0).ceil() as u8
num_status_groups(num_status_channels) ==
    LET ceil == CeilDiv(num_status_channels, StatusGroupBits)
    IN IF ceil > U8Max THEN U8Max ELSE ceil

\* (group & (0b01 << bit_idx)) >> bit_idx
group_bit(group, bit_idx) == (group \div (2 ^ bit_idx)) % 2

\* the groups flat-mapped to their 16 bits, then .take(num_status_channels)
status_values(groups, num_status_channels) ==
    LET all == [k \in 1..(Len(groups) * StatusGroupBits) |->
                   group_bit(groups[((k - 1) \div StatusGroupBits) + 1],
                             (k - 1) % StatusGroupBits)]
    IN IF num_status_channels < Len(all)
       THEN SubSeq(all, 1, num_status_channels)
       ELSE all

----------------------------------------------------------------------------
(* The status words on their own: a declared status-channel count, one      *)
(* record's status values packed as the format packs them (16 per word,     *)
(* least-significant bit first, the last word padded with zeros), then the  *)
(* decoder's unpacking of the words it reads.                               *)

MaxSmallStatus == 5

\* counts around the word boundaries, and around the largest count whose
\* number of words fits a u8
BoundaryStatusCounts ==
    {StatusGroupBits - 1, StatusGroupBits, StatusGroupBits + 1, 2 * StatusGroupBits + 1,
     U8Max * StatusGroupBits, U8Max * StatusGroupBits + 1}

PatternValue(pattern, k) ==
    CASE pattern = "ones" -> 1
      [] pattern = "alternate" -> k % 2
      [] pattern = "thirds" -> IF k % 3 = 0 THEN 1 ELSE 0

StatusRecords ==
    UNION {[1..s -> {0, 1}] : s \in 0..MaxSmallStatus}
    \cup {[k \in 1..s |-> PatternValue(pattern, k)] :
             s \in BoundaryStatusCounts, pattern \in {"ones", "alternate", "thirds"}}

RECURSIVE PackBits(_, _, _)
PackBits(values, first, i) ==
    IF i >= StatusGroupBits \/ first + i > Len(values) THEN 0
    ELSE values[first + i] * (2 ^ i) + PackBits(values, first, i + 1)

\* the status words of a record as the format lays them out
PackStatus(values) ==
    [g \in 1..CeilDiv(Len(values), StatusGroupBits) |->
        PackBits(values, (g - 1) * StatusGroupBits + 1, 0)]

InitUnpack ==
    /\ overflow_checks \in BOOLEAN
    /\ files = None
    /\ \E values \in StatusRecords :
          /\ self = [ComtradeParser_new EXCEPT !.num_status_channels = Len(values)]
          /\ loc = [values |-> values, words |-> PackStatus(values)]
    /\ pc = "status_groups"
    /\ outcome = None
    /\ call = NoCall

\* the decoder reads num_status_groups words of the record and unpacks them
UnpackStatusWords ==
    /\ pc = "status_groups"
    /\ call = NoCall
    /\ LET n == num_status_groups(self.num_status_channels)
           groups == SubSeq(loc.words, 1, n)
       IN call' = [fn |-> "status_values", groups_read |-> n,
                   result |-> status_values(groups, self.num_status_channels)]
    /\ UNCHANGED <<overflow_checks, files, self, pc, loc, outcome>>

NextUnpack == UnpackStatusWords

SpecUnpack == InitUnpack /\ [][NextUnpack]_vars

\* C9: for every declared status-channel count S, the value appended to status
\* channel k (0 <= k < S) is bit (k mod 16), counted from the least-significant
\* bit, of status word floor(k/16) of the record; bits at positions >= S are
\* appended to no channel; packing then unpacking returns the S values.
C9_UnpackInvertsPack ==
    call.fn = "status_values" =>
        /\ Len(call.result) = self.num_status_channels
        /\ \A k \in 0..(self.num_status_channels - 1) :
              /\ k + 1 <= Len(call.result)
              /\ call.result[k + 1]
                     = (loc.words[(k \div 16) + 1] \div (2 ^ (k % 16))) % 2
        /\ call.result = loc.values

----------------------------------------------------------------------------
(* error.rs: ComtradeError and add_context.                                 *)

MissingLineElements(context) == [variant |-> "MissingLineElements", context |-> context]
InvalidValue(value, type_, field) ==
    [variant |-> "InvalidValue", value |-> value, type_ |-> type_, field |-> field]
UnexpectedEndOfCfgFile == [variant |-> "UnexpectedEndOfCfgFile"]
BadRevisionFormat(value) == [variant |-> "BadRevisionFormat", value |-> value]
InvalidNormalStatus(index) == [variant |-> "InvalidNormalStatus", index |-> index]
CantFindTimestampPrecision == [variant |-> "CantFindTimestampPrecision"]
ParserError(message) == [variant |-> "ParserError", message |-> message]
\* parser/mod.rs ParseError::new(message)
ParseError(message) == [variant |-> "ParseError", message |-> message]
\* ParseError::new(format!(message, args..))
ParseErrorAt(message, args) == [variant |-> "ParseError", message |-> message, args |-> args]

add_context(e, msg) ==
    CASE e.variant = "MissingLineElements" -> MissingLineElements(msg)
      [] e.variant = "InvalidValue" -> InvalidValue(e.value, e.type_, msg)
      [] OTHER -> e

\* Result::map_err(|e| e.add_context(msg))
WithContext(r, msg) == IF r.tag = "Err" THEN Err(add_context(r.kind, msg)) ELSE r

----------------------------------------------------------------------------
(* parser/cfg/mod.rs: ConfigLine, the cursor over the fields of a line.     *)
(* A line is the sequence of its trimmed fields; read i is the i-th call of *)
(* next() on it.                                                            *)

\* str::trim on a field: leading and trailing spaces removed
RECURSIVE TrimLeft(_)
TrimLeft(s) == IF s # <<>> /\ Head(s) = " " THEN TrimLeft(Tail(s)) ELSE s

RECURSIVE TrimRight(_)
TrimRight(s) ==
    IF s # <<>> /\ s[Len(s)] = " " THEN TrimRight(SubSeq(s, 1, Len(s) - 1)) ELSE s

trim(s) == TrimRight(TrimLeft(s))

read_next(line, i) ==
    IF i <= Len(line) THEN Ok(trim(line[i])) ELSE Err(MissingLineElements(""))

\* FromStr of the field types
ParseString(s) == Some(s)

ParseUsize(s) == ParseUnsigned(s)

ParseU32(s) == ParseUnsigned(s)

ParseU8(s) ==
    IF ParseUnsigned(s).some /\ ParseUnsigned(s).v <= U8Max THEN ParseUnsigned(s) ELSE None

ParseNonZeroUsize(s) ==
    IF ParseUnsigned(s).some /\ ParseUnsigned(s).v # 0 THEN ParseUnsigned(s) ELSE None

\* f64::from_str on the tokens of the model: optionally signed integers
ParseF64(s) == ParseI32(s)

\* parser/cfg/revisions.rs: FormatRevision::from_str
ParseFormatRevision(s) ==
    CASE s = <<"1", "9", "9", "1">> -> Some("Revision1991")
      [] s = <<"1", "9", "9", "9">> -> Some("Revision1999")
      [] s = <<"2", "0", "1", "3">> -> Some("Revision2013")
      [] OTHER -> None

\* parser/mod.rs: DataFormat::from_str
ParseDataFormat(s) ==
    LET v == to_lowercase(trim(s))
    IN CASE v = <<"a", "s", "c", "i", "i">> -> Some("Ascii")
         [] v = <<"b", "i", "n", "a", "r", "y">> -> Some("Binary16")
         [] v = <<"b", "i", "n", "a", "r", "y", "3", "2">> -> Some("Binary32")
         [] v = <<"f", "l", "o", "a", "t", "3", "2">> -> Some("Float32")
         [] OTHER -> None

\* parser/mod.rs: AnalogScalingMode::from_str
ParseAnalogScalingMode(s) ==
    CASE to_lowercase(s) = <<"p">> -> Some("Primary")
      [] to_lowercase(s) = <<"s">> -> Some("Secondary")
      [] OTHER -> None

\* parser/mod.rs: TimeQuality::from_str
ParseTimeQuality(s) ==
    LET v == trim(to_lowercase(s))
    IN CASE v = <<"f">> -> Some([quality |-> "ClockFailure"])
         [] v = <<"b">> -> Some([quality |-> "ClockUnlocked", exponent |-> 1])
         [] v = <<"a">> -> Some([quality |-> "ClockUnlocked", exponent |-> 0])
         [] Len(v) = 1 /\ IsDigit(v[1]) /\ v[1] # "0" ->
                Some([quality |-> "ClockUnlocked", exponent |-> DigitValue(v[1]) - 10])
         [] v = <<"0">> -> Some([quality |-> "ClockLocked"])
         [] OTHER -> None

\* parser/mod.rs: LeapSecondStatus::from_str
ParseLeapSecondStatus(s) ==
    LET v == trim(s)
    IN CASE v = <<"3">> -> Some("NoCapability")
         [] v = <<"2">> -> Some("Subtracted")
         [] v = <<"1">> -> Some("Added")
         [] v = <<"0">> -> Some("NotPresent")
         [] OTHER -> None

\* T::from_str for the type T that read_value is called at
FromStr(type_, s) ==
    CASE type_ = "String" -> ParseString(s)
      [] type_ = "usize" -> ParseUsize(s)
      [] type_ = "u32" -> ParseU32(s)
      [] type_ = "u8" -> ParseU8(s)
      [] type_ = "NonZeroUsize" -> ParseNonZeroUsize(s)
      [] type_ = "f64" -> ParseF64(s)
      [] type_ = "FormatRevision" -> ParseFormatRevision(s)
      [] type_ = "DataFormat" -> ParseDataFormat(s)
      [] type_ = "AnalogScalingMode" -> ParseAnalogScalingMode(s)
      [] type_ = "TimeQuality" -> ParseTimeQuality(s)
      [] type_ = "LeapSecondStatus" -> ParseLeapSecondStatus(s)

\* ConfigLine::read_value::<T>()
read_value(type_, line, i) ==
    LET str_value == read_next(line, i)
    IN IF str_value.tag = "Err" THEN str_value
       ELSE IF FromStr(type_, str_value.v).some THEN Ok(FromStr(type_, str_value.v).v)
       ELSE Err(InvalidValue(str_value.v, type_, ""))

\* &str_value[..str_value.len().saturating_sub(1)]
DropLastChar(s) == IF s = <<>> THEN s ELSE SubSeq(s, 1, Len(s) - 1)

\* ConfigLine::read_value_with_trailing_char::<T>()
read_value_with_trailing_char(type_, line, i) ==
    LET str_value == read_next(line, i)
    IN IF str_value.tag = "Err" THEN str_value
       ELSE IF FromStr(type_, DropLastChar(str_value.v)).some
            THEN Ok(FromStr(type_, DropLastChar(str_value.v)).v)
            ELSE Err(InvalidValue(str_value.v, type_, ""))

----------------------------------------------------------------------------
(* The stanza readers of the configuration grammar.                         *)

\* parser/cfg/id_line.rs: IdRow::from_config_line
IdRow_from_config_line(config_line) ==
    LET name == read_value("String", config_line, 1)
        recording_device_id == read_value("String", config_line, 2)
        revision == read_value("FormatRevision", config_line, 3)
    IN IF name.tag = "Err" THEN name
       ELSE IF recording_device_id.tag = "Err" THEN recording_device_id
       ELSE IF revision.tag = "Err" /\ revision.kind.variant # "MissingLineElements"
            THEN revision
       ELSE Ok([station_name |-> name.v,
                recording_device_id |-> recording_device_id.v,
                format_revision |->
                    IF revision.tag = "Ok" THEN revision.v ELSE "Revision1991"])

\* parser/cfg/mod.rs: ChannelSizes::from_line
ChannelSizes_from_line(cfg_line) ==
    LET total == WithContext(read_value("usize", cfg_line, 1),
                             "Channel Sizes: Total")
        analog == WithContext(read_value_with_trailing_char("usize", cfg_line, 2),
                              "Channel Sizes: Analog")
        status == WithContext(read_value_with_trailing_char("usize", cfg_line, 3),
                              "Channel Sizes: Status")
    IN IF total.tag = "Err" THEN total
       ELSE IF analog.tag = "Err" THEN analog
       ELSE IF status.tag = "Err" THEN status
       ELSE Ok([analog |-> analog.v, status |-> status.v])

\* the first error among the results rs, or None
RECURSIVE FirstErr(_)
FirstErr(rs) ==
    IF rs = <<>> THEN None
    ELSE IF Head(rs).tag = "Err" THEN Some(Head(rs)) ELSE FirstErr(Tail(rs))

\* parser/cfg/analog_channels.rs: AnalogConfig::from_cfg_row
AnalogConfig_from_cfg_row(config_line) ==
    LET index == read_value("NonZeroUsize", config_line, 1)
        name == read_value("String", config_line, 2)
        phase == read_value("String", config_line, 3)
        component == read_value("String", config_line, 4)
        units == read_value("String", config_line, 5)
        multiplier == read_value("f64", config_line, 6)
        offset_adder == read_value("f64", config_line, 7)
        skew == read_value("f64", config_line, 8)
        min_value == read_value("f64", config_line, 9)
        max_value == read_value("f64", config_line, 10)
        primary_factor == read_value("f64", config_line, 11)
        secondary_factor == read_value("f64", config_line, 12)
        scaling_mode == read_value("AnalogScalingMode", config_line, 13)
        e == FirstErr(<<index, name, phase, component, units, multiplier, offset_adder,
                        skew, min_value, max_value, primary_factor, secondary_factor,
                        scaling_mode>>)
    IN IF e.some THEN e.v
       ELSE Ok([index |-> index.v, name |-> name.v, phase |-> phase.v,
                circuit_component_being_monitored |-> component.v, units |-> units.v,
                min_value |-> min_value.v, max_value |-> max_value.v,
                multiplier |-> multiplier.v, offset_adder |-> offset_adder.v,
                skew |-> skew.v, primary_factor |-> primary_factor.v,
                secondary_factor |-> secondary_factor.v, scaling_mode |-> scaling_mode.v])

\* the row reader of parser/cfg/status_channel.rs without the check of the
\* normal status
StatusConfig_from_config_row_unchecked(config_line) ==
    LET status_index == read_value("NonZeroUsize", config_line, 1)
        name == read_value("String", config_line, 2)
        phase == read_value("String", config_line, 3)
        component == read_value("String", config_line, 4)
        normal_status_value == read_value("u8", config_line, 5)
        e == FirstErr(<<status_index, name, phase, component, normal_status_value>>)
    IN IF e.some THEN e.v
       ELSE Ok([index |-> status_index.v, name |-> name.v, phase |-> phase.v,
                circuit_component_being_monitored |-> component.v,
                normal_status_value |-> normal_status_value.v])

\* parser/cfg/status_channel.rs: StatusConfig::from_config_row
StatusConfig_from_config_row(config_line) ==
    LET status_index == read_value("NonZeroUsize", config_line, 1)
        name == read_value("String", config_line, 2)
        phase == read_value("String", config_line, 3)
        component == read_value("String", config_line, 4)
        normal_status_value == read_value("u8", config_line, 5)
        e == FirstErr(<<status_index, name, phase, component, normal_status_value>>)
    IN IF e.some THEN e.v
       ELSE IF normal_status_value.v # 0 /\ normal_status_value.v # 1
            THEN Err(InvalidNormalStatus(status_index.v))
       ELSE Ok([index |-> status_index.v, name |-> name.v, phase |-> phase.v,
                circuit_component_being_monitored |-> component.v,
                normal_status_value |-> normal_status_value.v])

\* parser/cfg/sample_rates.rs: SamplingRate::from_config_line
SamplingRate_from_config_line(line) ==
    LET rate_hz == read_value("f64", line, 1)
        end_sample_number == read_value("u32", line, 2)
    IN IF rate_hz.tag = "Err" THEN rate_hz
       ELSE IF end_sample_number.tag = "Err" THEN end_sample_number
       ELSE Ok([rate_hz |-> rate_hz.v, end_sample_number |-> end_sample_number.v])

----------------------------------------------------------------------------
(* parser/cfg/revisions.rs read_date and parser/cfg/date_time.rs: the       *)
(* start-time and trigger-time lines (chrono's parse_from_str).             *)

IsLeapYear(y) == (y % 4 = 0 /\ y % 100 # 0) \/ y % 400 = 0

DaysInMonth(y, m) ==
    CASE m \in {4, 6, 9, 11} -> 30
      [] m = 2 -> IF IsLeapYear(y) THEN 29 ELSE 28
      [] OTHER -> 31

\* a numeric item of at most `width` digits
ParseItem(s, width) == IF AllDigits(s) /\ Len(s) <= width THEN Some(DigitsValue(s, 0)) ELSE None

\* NaiveDate::parse_from_str(date, "%m/%d/%Y") with month_first, "%d/%m/%Y" without
ParseDate(date, month_first) ==
    LET parts == split(date, "/")
        first == ParseItem(parts[1], 2)
        second == ParseItem(parts[2], 2)
        year == ParseItem(parts[3], 4)
        month == IF month_first THEN first ELSE second
        day == IF month_first THEN second ELSE first
    IN IF Len(parts) # 3 THEN None
       ELSE IF ~(first.some /\ second.some /\ year.some) THEN None
       ELSE IF ~(month.v \in 1..12) THEN None
       ELSE IF ~(day.v \in 1..DaysInMonth(year.v, month.v)) THEN None
       ELSE Some([year |-> year.v, month |-> month.v, day |-> day.v])

\* the same with the day first for every revision
read_date_day_first(revision, date) ==
    LET parsed == ParseDate(date, FALSE)
    IN IF parsed.some THEN Ok(parsed.v) ELSE Err(InvalidValue(date, "date", "date"))

\* FormatRevision::read_date
read_date(revision, date) ==
    LET parsed == ParseDate(date, revision = "Revision1991")
    IN IF parsed.some THEN Ok(parsed.v) ELSE Err(InvalidValue(date, "date", "date"))

\* NaiveTime::parse_from_str(time_string, "%H:%M:%S%.f")
ParseTime(time_string) ==
    LET parts == split(time_string, ":")
        sec_parts == split(parts[3], ".")
        hour == ParseItem(parts[1], 2)
        minute == ParseItem(parts[2], 2)
        second == ParseItem(sec_parts[1], 2)
    IN IF Len(parts) # 3 THEN None
       ELSE IF Len(sec_parts) > 2 THEN None
       ELSE IF ~(hour.some /\ minute.some /\ second.some) THEN None
       ELSE IF ~(hour.v <= 23 /\ minute.v <= 59 /\ second.v <= 60) THEN None
       ELSE IF Len(sec_parts) = 2 /\ ~AllDigits(sec_parts[2]) THEN None
       ELSE Some([hour |-> hour.v, minute |-> minute.v, second |-> second.v,
                  fraction |-> IF Len(sec_parts) = 2
                               THEN SubSeq(sec_parts[2], 1,
                                           IF Len(sec_parts[2]) < 9 THEN Len(sec_parts[2]) ELSE 9)
                               ELSE <<>>])

MicrosecondDigits == 6

\* the same with the comparison `< 6`
ts_base_unit_lt(datetime_stamp) ==
    LET sections == split(datetime_stamp, ".")
        last_section == sections[Len(sections)]
    IN IF Len(sections) < 2 THEN Err(CantFindTimestampPrecision)
       ELSE IF Len(last_section) < MicrosecondDigits THEN Ok("Microseconds")
       ELSE Ok("Nanoseconds")

\* ts_base_unit: the precision from the digits after the last '.'
ts_base_unit(datetime_stamp) ==
    LET sections == split(datetime_stamp, ".")
        last_section == sections[Len(sections)]
    IN IF Len(sections) < 2 THEN Err(CantFindTimestampPrecision)
       ELSE IF Len(last_section) <= MicrosecondDigits THEN Ok("Microseconds")
       ELSE Ok("Nanoseconds")

\* TimePrecision::to_value, as the denominator of the unit
to_value(precision) == IF precision = "Microseconds" THEN Microseconds ELSE Nanoseconds

\* the unit of the line read last instead of the smaller unit
UnitOfLastLine(a, b) == b

\* f64::min of two units 1/a and 1/b, as denominators
UnitMin(a, b) == IF a >= b THEN a ELSE b

\* ComtradeDateTime::from_config_line
ComtradeDateTime_from_config_line(line, revision) ==
    LET date_string == read_next(line, 1)
        time_string == read_next(line, 2)
    IN IF date_string.tag = "Err" THEN date_string
       ELSE IF time_string.tag = "Err" THEN time_string
       ELSE LET date == read_date(revision, date_string.v)
                time == ParseTime(time_string.v)
                precision == ts_base_unit(time_string.v)
            IN IF date.tag = "Err" THEN date
               ELSE IF ~time.some THEN Err(InvalidValue(time_string.v, "time", "time"))
               ELSE IF precision.tag = "Err" THEN precision
               ELSE Ok([date_time |-> [date |-> date.v, time |-> time.v],
                        precision |-> precision.v])

----------------------------------------------------------------------------
(* parser/mod.rs parse() and parser/cfg/mod.rs parse_cfg, one action per    *)
(* stanza of the configuration grammar.  loc.lines_read is the position of  *)
(* the `lines` iterator over self.cfg_contents.                             *)

\* `?` on an Err, or a panic: parse() ends there and the parser is dropped
Fail(r) ==
    /\ pc' = "done"
    /\ outcome' = Some(r)

\* lines.next()
NextLine ==
    IF loc.lines_read < Len(self.cfg_contents)
    THEN Some(self.cfg_contents[loc.lines_read + 1])
    ELSE None

LocCfg ==
    [lines_read |-> 0, format_revision |-> "Revision1991",
     analog_channels |-> <<>>, status_channels |-> <<>>,
     num_sampling_rates |-> 0, sampling_rates |-> <<>>]

\* a channel as parse_cfg stores it: its config and no data yet
NewChannel(c) == [config |-> c, data |-> <<>>]

\* where parse_cfg goes after the channel-count line and after each channel row
PcOfRows(l, p) ==
    IF Len(l.analog_channels) < p.num_analog_channels THEN "cfg_analog"
    ELSE IF Len(l.status_channels) < p.num_status_channels THEN "cfg_status"
    ELSE "cfg_frequency"

\* self.analog_channels and self.status_channels, assigned once both loops ended
WithChannels(l, p) ==
    IF PcOfRows(l, p) = "cfg_frequency"
    THEN [p EXCEPT !.analog_channels = [i \in DOMAIN l.analog_channels |->
                                           NewChannel(l.analog_channels[i])],
                   !.status_channels = [i \in DOMAIN l.status_channels |->
                                           NewChannel(l.status_channels[i])]]
    ELSE p

Consumed == [loc EXCEPT !.lines_read = @ + 1]

\* one stanza: the next line was read as r; on success the parser, the locals
\* and the position become new_self, new_loc and new_pc
Stanza(at, r, new_self, new_loc, new_pc) ==
    /\ pc = at
    /\ IF ~NextLine.some
       THEN Fail(Err(UnexpectedEndOfCfgFile)) /\ UNCHANGED <<self, loc>>
       ELSE IF r.tag # "Ok"
       THEN Fail(r) /\ loc' = Consumed /\ UNCHANGED self
       ELSE /\ self' = new_self
            /\ loc' = new_loc
            /\ pc' = new_pc
            /\ UNCHANGED outcome
    /\ UNCHANGED <<overflow_checks, files, call>>

Set(builder, field, value) == [builder EXCEPT ![field] = Some(value)]

CfgIdLine ==
    LET r == IdRow_from_config_line(NextLine.v)
        id == r.v
    IN Stanza("cfg_id", r,
              [self EXCEPT !.builder =
                  Set(Set(Set(@, "station_name", id.station_name),
                          "recording_device_id", id.recording_device_id),
                      "revision", id.format_revision)],
              [Consumed EXCEPT !.format_revision = id.format_revision],
              "cfg_counts")

CfgChannelCounts ==
    LET r == ChannelSizes_from_line(NextLine.v)
        sized == [self EXCEPT !.num_analog_channels = r.v.analog,
                              !.num_status_channels = r.v.status]
    IN Stanza("cfg_counts", r, WithChannels(Consumed, sized), Consumed,
              PcOfRows(Consumed, sized))

CfgAnalogRow ==
    LET r == AnalogConfig_from_cfg_row(NextLine.v)
        pushed == [Consumed EXCEPT !.analog_channels = Append(@, r.v)]
    IN Stanza("cfg_analog", r, WithChannels(pushed, self), pushed, PcOfRows(pushed, self))

CfgStatusRow ==
    LET r == StatusConfig_from_config_row(NextLine.v)
        pushed == [Consumed EXCEPT !.status_channels = Append(@, r.v)]
    IN Stanza("cfg_status", r, WithChannels(pushed, self), pushed, PcOfRows(pushed, self))

CfgLineFrequency ==
    LET r == read_value("f64", NextLine.v, 1)
    IN Stanza("cfg_frequency", r,
              [self EXCEPT !.builder = Set(@, "line_frequency", r.v)],
              Consumed, "cfg_nrates")

CfgSamplingRateCount ==
    LET r == read_value("u32", NextLine.v, 1)
    IN Stanza("cfg_nrates", r, self,
              [Consumed EXCEPT !.num_sampling_rates = r.v],
              IF r.v > 0 THEN "cfg_rate" ELSE "cfg_total")

CfgSamplingRate ==
    LET r == SamplingRate_from_config_line(NextLine.v)
        pushed == [Consumed EXCEPT !.sampling_rates = Append(@, r.v)]
    IN Stanza("cfg_rate", r, self, pushed,
              IF Len(pushed.sampling_rates) < loc.num_sampling_rates
              THEN "cfg_rate" ELSE "cfg_total")

\* the largest end_sample_number of a non-empty table: Iterator::max
RECURSIVE MaxEnd(_)
MaxEnd(rates) ==
    IF Len(rates) = 1 THEN rates[1].end_sample_number
    ELSE LET rest == MaxEnd(Tail(rates))
         IN IF rates[1].end_sample_number > rest THEN rates[1].end_sample_number ELSE rest

\* parse_cfg after the sampling-rate rows: total_num_samples from the table,
\* the extra line of a zero count, the timestamp-critical flag
CfgTotalSamples ==
    /\ pc = "cfg_total"
    /\ IF loc.sampling_rates = <<>>
       THEN /\ Fail(Panic("Option::unwrap on a None value"))
            /\ UNCHANGED <<self, loc>>
       ELSE IF loc.num_sampling_rates = 0 /\ ~NextLine.some
       THEN /\ Fail(Err(UnexpectedEndOfCfgFile))
            /\ self' = [self EXCEPT !.total_num_samples = MaxEnd(loc.sampling_rates)]
            /\ UNCHANGED loc
       ELSE /\ self' = [self EXCEPT
                           !.total_num_samples = MaxEnd(loc.sampling_rates),
                           !.is_timestamp_critical = (loc.num_sampling_rates = 0),
                           !.builder = Set(@, "sampling_rates", loc.sampling_rates)]
            /\ loc' = IF loc.num_sampling_rates = 0 THEN Consumed ELSE loc
            /\ pc' = "cfg_start"
            /\ UNCHANGED outcome
    /\ UNCHANGED <<overflow_checks, files, call>>

CfgStartTime ==
    LET r == ComtradeDateTime_from_config_line(NextLine.v, loc.format_revision)
    IN Stanza("cfg_start", r,
              [self EXCEPT !.builder = Set(@, "start_time", r.v.date_time),
                           !.ts_base_unit = to_value(r.v.precision)],
              Consumed, "cfg_trigger")

CfgTriggerTime ==
    LET r == ComtradeDateTime_from_config_line(NextLine.v, loc.format_revision)
    IN Stanza("cfg_trigger", r,
              [self EXCEPT !.builder = Set(@, "trigger_time", r.v.date_time),
                           !.ts_base_unit = UnitMin(@, to_value(r.v.precision))],
              Consumed, "cfg_format")

\* the data-format line; a Revision1991 file ends here
CfgDataFormat ==
    LET r == read_value("DataFormat", NextLine.v, 1)
    IN Stanza("cfg_format", r,
              [self EXCEPT !.data_format = Some(r.v),
                           !.builder = Set(@, "data_format", r.v)],
              Consumed,
              IF loc.format_revision = "Revision1991" THEN "dat_read" ELSE "cfg_timemult")

\* the setters after the multiplication-factor line: the factor, a literal 1
time_mult_setters_default_to_one(builder, time_mult) ==
    Set(Set(Set(Set(Set(builder, "timestamp_multiplication_factor", 1),
                    "time_offset", None),
                "local_offset", None),
            "time_quality", None),
        "leap_second_status", None)

\* the setters after the multiplication-factor line: the factor read, and the
\* defaults of the 2013 fields
time_mult_setters(builder, time_mult) ==
    Set(Set(Set(Set(Set(builder, "timestamp_multiplication_factor", time_mult),
                    "time_offset", None),
                "local_offset", None),
            "time_quality", None),
        "leap_second_status", None)

\* the multiplication-factor line; a Revision1999 file ends here
CfgTimeMult ==
    LET r == read_value("f64", NextLine.v, 1)
    IN Stanza("cfg_timemult", r,
              [self EXCEPT !.builder = time_mult_setters(@, r.v)],
              Consumed,
              IF loc.format_revision = "Revision1999" THEN "dat_read" ELSE "cfg_offset")

\* parse_time_offset(&line_values.read_value::<String>()?).map_err(ParserError)
ReadOffset(line, i) ==
    LET token == read_value("String", line, i)
    IN IF token.tag = "Err" THEN token
       ELSE LET r == parse_time_offset(token.v)
            IN IF r.tag = "Err" THEN Err(ParserError(r.kind)) ELSE r

CfgTimeOffset ==
    LET time_offset == ReadOffset(NextLine.v, 1)
        local_offset == ReadOffset(NextLine.v, 2)
        r == IF time_offset.tag # "Ok" THEN time_offset ELSE local_offset
    IN Stanza("cfg_offset", r,
              [self EXCEPT !.builder =
                  Set(Set(@, "time_offset", time_offset.v), "local_offset", local_offset.v)],
              Consumed, "cfg_quality")

\* the time-quality line: each setter runs as soon as its value is read
CfgTimeQuality ==
    /\ pc = "cfg_quality"
    /\ LET line == NextLine
       IN IF ~line.some
          THEN Fail(Err(UnexpectedEndOfCfgFile)) /\ UNCHANGED <<self, loc>>
          ELSE LET tmq_code == read_value("TimeQuality", line.v, 1)
                   leap == read_value("LeapSecondStatus", line.v, 2)
               IN /\ loc' = Consumed
                  /\ IF tmq_code.tag = "Err"
                     THEN Fail(tmq_code) /\ UNCHANGED self
                     ELSE IF leap.tag = "Err"
                     THEN /\ Fail(leap)
                          /\ self' = [self EXCEPT !.builder =
                                         Set(@, "time_quality", Some(tmq_code.v))]
                     ELSE /\ self' = [self EXCEPT !.builder =
                                         Set(Set(@, "time_quality", Some(tmq_code.v)),
                                             "leap_second_status", Some(leap.v))]
                          /\ pc' = "dat_read"
                          /\ UNCHANGED outcome
    /\ UNCHANGED <<overflow_checks, files, call>>


----------------------------------------------------------------------------
(* parser/mod.rs parse(), the data stream, and parser/dat.rs.               *)

\* the lines of the text data that survive .filter(|l| !l.trim().is_empty());
\* a line is its comma-separated fields, and a blank line has one, of spaces
IsBlankLine(line) == Len(line) = 1 /\ trim(line[1]) = <<>>

RECURSIVE NonBlank(_)
NonBlank(lines) ==
    IF lines = <<>> THEN <<>>
    ELSE IF IsBlankLine(Head(lines)) THEN NonBlank(Tail(lines))
    ELSE <<Head(lines)>> \o NonBlank(Tail(lines))

\* AnalogChannel::push_datum / StatusChannel::push_datum on channel i
PushDatum(channels, i, value) == [channels EXCEPT ![i].data = Append(@, value)]

\* value_raw * multiplier + adder
Scaled(channel, value_raw) ==
    value_raw * channel.config.multiplier + channel.config.offset_adder

\* str::parse::<u32>() on a trimmed field, as limbs
ParseU32Field(s) ==
    IF ParseUnsigned(trim(s)).some THEN Some(U32(ParseUnsigned(trim(s)).v)) ELSE None

\* the analog columns of a row, left to right, pushed until one fails
RECURSIVE AsciiAnalogs(_, _, _, _)
AsciiAnalogs(p, data_values, row, channel_idx) ==
    IF channel_idx >= p.num_analog_channels THEN Ok(p)
    ELSE LET value_str == trim(data_values[channel_idx + 3])
             value_raw == ParseF64(value_str)
         IN IF ~value_raw.some
            THEN Err(ParseErrorAt("[DAT] Invalid float value", [value |-> value_str,
                                 channel |-> channel_idx + 1, line |-> row + 1]))
            ELSE AsciiAnalogs(
                     [p EXCEPT !.analog_channels =
                         PushDatum(@, channel_idx + 1,
                                   Scaled(p.analog_channels[channel_idx + 1], value_raw.v))],
                     data_values, row, channel_idx + 1)

RECURSIVE AsciiStatuses(_, _, _, _)
AsciiStatuses(p, data_values, row, channel_idx) ==
    IF channel_idx >= p.num_status_channels THEN Ok(p)
    ELSE LET value_str == trim(data_values[channel_idx + p.num_analog_channels + 3])
             value == ParseU8(value_str)
         IN IF ~value.some
            THEN Err(ParseErrorAt("[DAT] Invalid status value", [value |-> value_str,
                                 channel |-> channel_idx + 1, line |-> row + 1]))
            ELSE AsciiStatuses(
                     [p EXCEPT !.status_channels = PushDatum(@, channel_idx + 1, value.v)],
                     data_values, row, channel_idx + 1)

\* parse_dat_ascii: one pass of the loop over the non-blank lines
DatAsciiRow ==
    /\ pc = "dat_ascii"
    /\ loc.i < Len(loc.rows)
    /\ LET i == loc.i
           data_values == loc.rows[i + 1]
           expected_num_cols == self.num_status_channels + self.num_analog_channels + 2
           sample_number == ParseU32Field(data_values[1])
           stored == IF trim(data_values[2]) = <<>> THEN Some(None)
                     ELSE IF ParseU32Field(data_values[2]).some
                          THEN Some(ParseU32Field(data_values[2]))
                          ELSE None
           time == real_time(self, overflow_checks, sample_number.v, stored.v)
           pushed == [loc EXCEPT !.sample_numbers = Append(@, sample_number.v)]
           analogs == AsciiAnalogs(self, data_values, i, 0)
           statuses == AsciiStatuses(analogs.v, data_values, i, 0)
       IN IF Len(data_values) # expected_num_cols
          THEN /\ Fail(Err(ParseErrorAt("incorrect number of columns", [row |-> i,
                                       expected |-> expected_num_cols,
                                       got |-> Len(data_values)])))
               /\ UNCHANGED <<self, loc>>
          ELSE IF ~sample_number.some
          THEN /\ Fail(Err(ParseErrorAt("[DAT] Invalid sample number",
                                         [value |-> trim(data_values[1]), line |-> i + 1])))
               /\ UNCHANGED <<self, loc>>
          ELSE IF ~stored.some
          THEN /\ Fail(Err(ParseErrorAt("[DAT] Invalid timestamp",
                                         [value |-> trim(data_values[2]), line |-> i])))
               /\ loc' = pushed
               /\ UNCHANGED self
          ELSE IF time.tag # "Ok"
          THEN /\ Fail(IF time.tag = "Err" THEN Err(ParseError(time.kind)) ELSE time)
               /\ loc' = pushed
               /\ UNCHANGED self
          ELSE IF analogs.tag # "Ok"
          THEN /\ Fail(analogs)
               /\ loc' = [pushed EXCEPT !.timestamps = Append(@, time.v)]
               /\ UNCHANGED self
          ELSE IF statuses.tag # "Ok"
          THEN /\ Fail(statuses)
               /\ loc' = [pushed EXCEPT !.timestamps = Append(@, time.v)]
               /\ self' = analogs.v
          ELSE /\ self' = statuses.v
               /\ loc' = [pushed EXCEPT !.timestamps = Append(@, time.v), !.i = i + 1]
               /\ UNCHANGED <<pc, outcome>>
    /\ UNCHANGED <<overflow_checks, files, call>>

\* parse_dat_ascii and parse_dat_binary after their loop
DatDone(at, finished) ==
    /\ pc = at
    /\ finished
    /\ self' = [self EXCEPT !.builder =
                   Set(Set(@, "sample_numbers", loc.sample_numbers),
                       "timestamps", loc.timestamps)]
    /\ pc' = "annotations"
    /\ UNCHANGED <<overflow_checks, files, loc, outcome, call>>

DatAsciiDone == DatDone("dat_ascii", loc.i >= Len(loc.rows))


\* Cursor::read_exact: the next n bytes, or None when fewer remain
ReadExact(bytes, cursor, n) ==
    IF cursor + n <= Len(bytes) THEN Some(SubSeq(bytes, cursor + 1, cursor + n)) ELSE None

ByteRange == 2 ^ 8

\* little-endian decoding of the fixed-width fields
u16_le(b) == b[1] + ByteRange * b[2]

u32_le(b) == [hi |-> b[3] + ByteRange * b[4], lo |-> b[1] + ByteRange * b[2]]

i16_le(b) == IF u16_le(b) >= Limb \div 2 THEN u16_le(b) - Limb ELSE u16_le(b)

i32_le(b) ==
    LET x == u32_le(b)
    IN IF x.hi >= Limb \div 2 THEN (x.hi - Limb) * Limb + x.lo ELSE x.hi * Limb + x.lo

\* IEEE 754 binary32 fields
F32FractionBits == 23
F32Bias == 127

\* an f32 as f64: exact when the value is an integer, otherwise its bit fields
f32_le(b) ==
    LET x == u32_le(b)
        sign == IF x.hi >= Limb \div 2 THEN 0 - 1 ELSE 1
        exponent == (x.hi % (Limb \div 2)) \div (2 ^ 7)
        fraction == (x.hi % (2 ^ 7)) * Limb + x.lo
        shift == F32Bias + F32FractionBits - exponent
        significand == 2 ^ F32FractionBits + fraction
    IN IF exponent = 0 /\ fraction = 0 THEN 0
       ELSE IF shift \in 0..F32FractionBits /\ significand % (2 ^ shift) = 0
            THEN sign * (significand \div (2 ^ shift))
            ELSE [sign |-> sign, exponent |-> exponent, fraction |-> fraction]

AnalogWidth(data_format) == IF data_format = "Binary16" THEN 2 ELSE 4

\* the analog values of a record, in channel order; every read is unwrapped
RECURSIVE BinaryAnalogs(_, _, _, _)
BinaryAnalogs(p, cursor, channel_idx, values) ==
    IF channel_idx >= p.num_analog_channels THEN Ok([cursor |-> cursor, values |-> values])
    ELSE IF ~(p.data_format.some
              /\ p.data_format.v \in {"Binary16", "Binary32", "Float32"})
    THEN Panic("tried to parse binary data for non-binary or invalid data format")
    ELSE LET width == AnalogWidth(p.data_format.v)
             b == ReadExact(p.binary_dat_contents, cursor, width)
             value == CASE p.data_format.v = "Binary16" -> i16_le(b.v)
                        [] p.data_format.v = "Binary32" -> i32_le(b.v)
                        [] p.data_format.v = "Float32" -> f32_le(b.v)
         IN IF ~b.some THEN Panic("called Result::unwrap on an Err value: UnexpectedEof")
            ELSE BinaryAnalogs(p, cursor + width, channel_idx + 1,
                               Append(values, Scaled(p.analog_channels[channel_idx + 1], value)))

\* the status words of a record; every read is unwrapped
RECURSIVE BinaryGroups(_, _, _, _)
BinaryGroups(bytes, cursor, n, groups) ==
    IF n = 0 THEN Ok([cursor |-> cursor, groups |-> groups])
    ELSE LET b == ReadExact(bytes, cursor, 2)
         IN IF ~b.some THEN Panic("called Result::unwrap on an Err value: UnexpectedEof")
            ELSE BinaryGroups(bytes, cursor + 2, n - 1, Append(groups, u16_le(b.v)))

RECURSIVE PushAll(_, _, _)
PushAll(channels, values, i) ==
    IF i > Len(values) THEN channels
    ELSE PushAll(PushDatum(channels, i, values[i]), values, i + 1)

\* parse_dat_binary: one pass of the loop, one record
DatBinaryRecord ==
    /\ pc = "dat_binary"
    /\ loc.i < self.total_num_samples
    /\ LET bytes == self.binary_dat_contents
           eof == Panic("called Result::unwrap on an Err value: UnexpectedEof")
           sample_number == ReadExact(bytes, loc.cursor, 4)
           timestamp == ReadExact(bytes, loc.cursor + 4, 4)
           stored == IF u32_le(timestamp.v) = TIMESTAMP_MISSING THEN None
                     ELSE Some(u32_le(timestamp.v))
           time == real_time(self, overflow_checks, u32_le(sample_number.v), stored)
           pushed == [loc EXCEPT !.sample_numbers = Append(@, u32_le(sample_number.v))]
           analogs == BinaryAnalogs(self, loc.cursor + 8, 0, <<>>)
           with_analogs == [self EXCEPT !.analog_channels = PushAll(@, analogs.v.values, 1)]
           groups == BinaryGroups(bytes, analogs.v.cursor,
                                  num_status_groups(self.num_status_channels), <<>>)
           statuses == status_values(groups.v.groups, self.num_status_channels)
       IN IF ~sample_number.some
          THEN Fail(eof) /\ UNCHANGED <<self, loc>>
          ELSE IF ~timestamp.some
          THEN Fail(eof) /\ loc' = [loc EXCEPT !.cursor = @ + 4] /\ UNCHANGED self
          ELSE IF time.tag # "Ok"
          THEN /\ Fail(IF time.tag = "Err" THEN Err(ParseError(time.kind)) ELSE time)
               /\ loc' = [pushed EXCEPT !.cursor = @ + 8]
               /\ UNCHANGED self
          ELSE IF analogs.tag # "Ok"
          THEN /\ Fail(analogs)
               /\ loc' = [pushed EXCEPT !.cursor = @ + 8, !.timestamps = Append(@, time.v)]
               /\ UNCHANGED self
          ELSE IF groups.tag # "Ok"
          THEN /\ Fail(groups)
               /\ loc' = [pushed EXCEPT !.cursor = analogs.v.cursor,
                                        !.timestamps = Append(@, time.v)]
               /\ self' = with_analogs
          ELSE /\ self' = [with_analogs EXCEPT !.status_channels = PushAll(@, statuses, 1)]
               /\ loc' = [pushed EXCEPT !.cursor = groups.v.cursor,
                                        !.timestamps = Append(@, time.v),
                                        !.i = @ + 1]
               /\ UNCHANGED <<pc, outcome>>
    /\ UNCHANGED <<overflow_checks, files, call>>

DatBinaryDone == DatDone("dat_binary", loc.i >= self.total_num_samples)


----------------------------------------------------------------------------
(* parser/cff.rs: load_cff, the demultiplexer of the combined stream.  The  *)
(* stream is the sequence of the lines read_line yields; one action per     *)
(* iteration of the loop.                                                   *)

\* the first position from i on that holds no space, no letter, no digit
RECURSIVE SkipSpaces(_, _)
SkipSpaces(s, i) == IF i <= Len(s) /\ s[i] = " " THEN SkipSpaces(s, i + 1) ELSE i

RECURSIVE SkipLetters(_, _)
SkipLetters(s, i) == IF i <= Len(s) /\ IsLetter(s[i]) THEN SkipLetters(s, i + 1) ELSE i

RECURSIVE SkipDigits(_, _)
SkipDigits(s, i) == IF i <= Len(s) /\ IsDigit(s[i]) THEN SkipDigits(s, i + 1) ELSE i

\* the literal lit (in lower case) stands at position i of s, in either case
LiteralAt(s, i, lit) ==
    /\ i + Len(lit) - 1 <= Len(s)
    /\ \A k \in 1..Len(lit) : Lower(s[i + k - 1]) = lit[k]

Dashes == <<"-", "-", "-">>

FileTypeLabel == <<"f", "i", "l", "e", " ", "t", "y", "p", "e", ":">>

\* CFF_HEADER_REGEXP matched from position i of s up to the end of s:
\* ---\s*file type:\s*(file_type)(\s+(data_format))?\s*(:\s*(data_size))?\s*---$
\* Each class is followed by a character outside it, so every repetition
\* takes the longest run and the match from i is unique.
CffHeaderAt(s, i) ==
    LET label == SkipSpaces(s, i + Len(Dashes))
        type_from == SkipSpaces(s, label + Len(FileTypeLabel))
        type_to == SkipLetters(s, type_from)
        format_from == SkipSpaces(s, type_to)
        has_format == format_from > type_to /\ SkipLetters(s, format_from) > format_from
        format_to == IF has_format THEN SkipLetters(s, format_from) ELSE type_to
        colon == SkipSpaces(s, format_to)
        has_size == colon <= Len(s) /\ s[colon] = ":"
        size_from == IF has_size THEN SkipSpaces(s, colon + 1) ELSE colon
        size_to == IF has_size THEN SkipDigits(s, size_from) ELSE colon
        closing == SkipSpaces(s, size_to)
    IN IF /\ LiteralAt(s, i, Dashes)
          /\ LiteralAt(s, label, FileTypeLabel)
          /\ type_to > type_from
          /\ has_size => size_to > size_from
          /\ LiteralAt(s, closing, Dashes)
          /\ closing + Len(Dashes) - 1 = Len(s)
       THEN Some([file_type |-> SubSeq(s, type_from, type_to - 1),
                  data_format |-> IF has_format
                                  THEN Some(SubSeq(s, format_from, format_to - 1))
                                  ELSE None,
                  data_size |-> IF has_size
                                THEN Some(SubSeq(s, size_from, size_to - 1))
                                ELSE None])
       ELSE None

\* CFF_HEADER_REGEXP.captures(line): the leftmost match.  No character of the
\* expression is a comma, so the match lies in the last field of the line.
CffHeaderCaptures(line) ==
    LET s == line[Len(line)]
        starts == {i \in 1..Len(s) : CffHeaderAt(s, i).some}
    IN IF starts = {} THEN None
       ELSE CffHeaderAt(s, CHOOSE i \in starts : \A j \in starts : i <= j)

\* parser/mod.rs: FileType::from_str
ParseFileType(value) ==
    LET v == to_lowercase(trim(value))
    IN CASE v = <<"c", "f", "g">> -> Some("Cfg")
         [] v = <<"d", "a", "t">> -> Some("Dat")
         [] v = <<"h", "d", "r">> -> Some("Hdr")
         [] v = <<"i", "n", "f">> -> Some("Inf")
         [] OTHER -> None

\* line.trim() on a whole line: the spaces before its first field and after
\* its last
TrimLine(line) ==
    LET left == [line EXCEPT ![1] = TrimLeft(@)]
    IN [left EXCEPT ![Len(line)] = TrimRight(@)]

\* lines.join("\n"), as split('\n') gives it back: the lines themselves, and
\* the one empty line of the empty string when there are none
JoinLines(lines) == IF lines = <<>> THEN EmptyString ELSE lines

LocCff ==
    [lines_read |-> 0,
     cfg_lines |-> <<>>, dat_lines |-> <<>>, hdr_lines |-> <<>>, inf_lines |-> <<>>,
     current_file |-> None, data_format |-> None, data_size |-> None]

\* the line of this iteration, trimmed
CffLine == TrimLine(files.cff.v[loc.lines_read + 1])

AtCffLine == pc = "cff_line" /\ loc.lines_read < Len(files.cff.v)

\* parse(): the combined stream is given, load_cff starts
LoadCff ==
    /\ pc = "start"
    /\ files.cff.some
    /\ pc' = "cff_line"
    /\ loc' = LocCff
    /\ UNCHANGED <<overflow_checks, files, self, outcome, call>>

\* load_cff: read_line fails and is unwrapped
CffReadLineFails ==
    /\ pc = "cff_line"
    /\ Fail(Panic("called Result::unwrap on an Err value: read_line"))
    /\ UNCHANGED <<overflow_checks, files, self, loc, call>>

\* load_cff: the line is a section header
CffHeaderLine ==
    /\ AtCffLine
    /\ \E line \in {CffLine} : \E captures \in {CffHeaderCaptures(line)} :
          /\ captures.some
          /\ \E header_match \in {captures.v} :
             \E file_type \in {ParseFileType(header_match.file_type)} :
             \E format \in {IF header_match.data_format.some
                             THEN ParseDataFormat(header_match.data_format.v)
                             ELSE None} :
             \E size \in {IF header_match.data_size.some
                           THEN ParseUsize(header_match.data_size.v)
                           ELSE None} :
             \E read \in {[loc EXCEPT !.lines_read = @ + 1]} :
                IF ~file_type.some
                THEN /\ Fail(Err(ParseErrorAt("invalid file type",
                                              <<header_match.file_type>>)))
                     /\ loc' = read
                ELSE IF header_match.data_format.some /\ ~format.some
                THEN /\ Fail(Err(ParseErrorAt("unrecognised or invalid COMTRADE data format",
                                              <<header_match.data_format.v>>)))
                     /\ loc' = [read EXCEPT !.current_file = file_type]
                ELSE IF header_match.data_size.some /\ ~size.some
                THEN /\ Fail(Err(ParseErrorAt("unable to parse .dat size",
                                              <<header_match.data_size.v>>)))
                     /\ loc' = [read EXCEPT !.current_file = file_type,
                                            !.data_format = IF format.some THEN format ELSE @]
                ELSE /\ loc' = [read EXCEPT
                                   !.current_file = file_type,
                                   !.data_format = IF format.some THEN format ELSE @,
                                   !.data_size = IF size.some THEN size ELSE @]
                     /\ UNCHANGED <<pc, outcome>>
    /\ UNCHANGED <<overflow_checks, files, self, call>>

\* the locals after `line` was pushed to the buffer of section file_type
PushLine(read, file_type, line) ==
    CASE file_type = "Cfg" -> [read EXCEPT !.cfg_lines = Append(@, line)]
      [] file_type = "Dat" -> [read EXCEPT !.dat_lines = Append(@, line)]
      [] file_type = "Hdr" -> [read EXCEPT !.hdr_lines = Append(@, line)]
      [] file_type = "Inf" -> [read EXCEPT !.inf_lines = Append(@, line)]

\* the same match, with a line before the first header taken as configuration
match_current_file_defaults_to_cfg(read, current_file, data_format, line) ==
    IF ~current_file.some
    THEN Ok(PushLine(read, "Cfg", line))
    ELSE IF current_file.v = "Dat" /\ data_format # Some("Ascii")
    THEN Panic("not implemented")
    ELSE Ok(PushLine(read, current_file.v, line))

\* load_cff: `match current_file` on a line that is no header
match_current_file(read, current_file, data_format, line) ==
    IF ~current_file.some
    THEN Err(ParseError("encountered file contents line before header in .cff"))
    ELSE IF current_file.v = "Dat" /\ data_format # Some("Ascii")
    THEN Panic("not implemented")
    ELSE Ok(PushLine(read, current_file.v, line))

\* load_cff: the line is no header, it goes to the buffer of the current section
CffContentLine ==
    /\ AtCffLine
    /\ \E line \in {CffLine} : \E read \in {[loc EXCEPT !.lines_read = @ + 1]} :
          /\ ~CffHeaderCaptures(line).some
          /\ \E r \in {match_current_file(read, loc.current_file, loc.data_format, line)} :
                IF r.tag = "Ok"
                THEN loc' = r.v /\ UNCHANGED <<pc, outcome>>
                ELSE Fail(r) /\ loc' = read
    /\ UNCHANGED <<overflow_checks, files, self, call>>

\* load_cff: end of the stream, the four buffers are joined into the parser;
\* parse() goes on with parse_cfg
LoadCffDone ==
    /\ pc = "cff_line"
    /\ loc.lines_read = Len(files.cff.v)
    /\ self' = [self EXCEPT !.cfg_contents = JoinLines(loc.cfg_lines),
                            !.ascii_dat_contents = JoinLines(loc.dat_lines),
                            !.hdr_contents = JoinLines(loc.hdr_lines),
                            !.inf_contents = JoinLines(loc.inf_lines)]
    /\ pc' = "cfg_id"
    /\ loc' = LocCfg
    /\ UNCHANGED <<overflow_checks, files, outcome, call>>

\* parse(): after parse_cfg of a combined stream, parse_dat decodes the buffer
\* of the data format that parse_cfg stored
ParseDatOfCff ==
    /\ pc = "dat_read"
    /\ files.cff.some
    /\ IF ~self.data_format.some
       THEN /\ Fail(Err(ParseError("Data format not specified.")))
            /\ UNCHANGED loc
       ELSE IF self.data_format.v = "Ascii"
       THEN /\ loc' = [rows |-> NonBlank(self.ascii_dat_contents), i |-> 0,
                       sample_numbers |-> <<>>, timestamps |-> <<>>]
            /\ pc' = "dat_ascii"
            /\ UNCHANGED outcome
       ELSE /\ loc' = [cursor |-> 0, i |-> 0,
                       sample_numbers |-> <<>>, timestamps |-> <<>>]
            /\ pc' = "dat_binary"
            /\ UNCHANGED outcome
    /\ UNCHANGED <<overflow_checks, files, self, call>>

----------------------------------------------------------------------------
(* The input streams: configuration files as the standard lays them out,    *)
(* cut short after any line or with one line replaced by a stray token, and *)
(* data files for the parsed configuration, complete, short, long or cut    *)
(* short inside a record.                                                   *)

MaxAnalog == 1
MaxStatus == 1
MaxRows == 2

\* a natural number in decimal
RECURSIVE Dec(_)
Dec(n) == IF n < 10 THEN <<Digits[n + 1]>> ELSE Dec(n \div 10) \o <<Digits[(n % 10) + 1]>>

IdTokens == [none |-> <<>>,
             r1991 |-> << <<"1", "9", "9", "1">> >>,
             r1999 |-> << <<"1", "9", "9", "9">> >>,
             r2013 |-> << <<"2", "0", "1", "3">> >>]

FormatTokens == [Ascii |-> <<"A", "S", "C", "I", "I">>,
                 Binary16 |-> <<"B", "I", "N", "A", "R", "Y">>,
                 Binary32 |-> <<"b", "i", "n", "a", "r", "y", "3", "2">>,
                 Float32 |-> <<"f", "l", "o", "a", "t", "3", "2">>]

\* 02/01/2000 is a date in both layouts
DateToken == <<"0", "2", "/", "0", "1", "/", "2", "0", "0", "0">>

TimeTokens == [micro |-> <<"0", "1", ":", "0", "0", ":", "0", "0", ".", "5", "0", "0", "0", "0", "0">>,
               nano |-> <<"0", "1", ":", "0", "0", ":", "0", "0", ".", "5", "0", "0", "0", "0", "0", "0">>]

AnalogRow(i) ==
    <<Dec(i), <<"V", "A">>, <<>>, <<>>, <<"V">>, <<"2">>, <<"-", "1">>, <<"0">>,
      <<"-", "9">>, <<"9">>, <<"1">>, <<"1">>, <<"P">> >>

StatusRow(i) == <<Dec(i), <<"S", "T">>, <<>>, <<>>, <<"0">> >>

RateRow(r) == <<Dec(r.rate_hz), Dec(r.end_sample_number)>>

CfgTables ==
    {<<>>}
    \cup {<<[rate_hz |-> 1, end_sample_number |-> e]>> : e \in 1..MaxRows}
    \cup {<<[rate_hz |-> 4, end_sample_number |-> 1],
            [rate_hz |-> 1, end_sample_number |-> MaxRows]>>}

\* a configuration file: its lines, closed by the empty line after the last '\n'
MakeCfg(rev, nA, nS, table, trigger, fmt, mult) ==
    << <<<<"S">>, <<"7">> >> \o IdTokens[rev] >>
    \o << <<Dec(nA + nS), Dec(nA) \o <<"A">>, Dec(nS) \o <<"D">> >> >>
    \o [i \in 1..nA |-> AnalogRow(i)]
    \o [i \in 1..nS |-> StatusRow(i)]
    \o << <<<<"5", "0">> >> >>
    \o << <<Dec(Len(table))>> >>
    \o [i \in 1..Len(table) |-> RateRow(table[i])]
    \o (IF table = <<>> THEN << <<<<"0">>, Dec(MaxRows)>> >> ELSE <<>>)
    \o << <<DateToken, TimeTokens.micro>> >>
    \o << <<DateToken, TimeTokens[trigger]>> >>
    \o << <<FormatTokens[fmt]>> >>
    \o (IF rev \in {"r1999", "r2013"} THEN << <<mult>> >> ELSE <<>>)
    \o (IF rev = "r2013"
        THEN << <<<<"-", "5", "h", "3", "0">>, <<"x">> >>, <<<<"B">>, <<"3">> >> >>
        ELSE <<>>)
    \o << <<<<>>>> >>

WellFormedCfgs ==
    {MakeCfg(rev, nA, nS, table, "micro", fmt, <<"2">>) :
        rev \in DOMAIN IdTokens, nA \in 0..MaxAnalog, nS \in 0..MaxStatus,
        table \in CfgTables, fmt \in DOMAIN FormatTokens}
    \cup {MakeCfg(rev, 1, 1, <<[rate_hz |-> 1, end_sample_number |-> 1]>>, "nano", fmt,
                  <<"3">>) : rev \in DOMAIN IdTokens, fmt \in DOMAIN FormatTokens}

\* the files the defects are applied to: one of each revision
BaseCfgs ==
    {MakeCfg(rev, 1, 1, <<[rate_hz |-> 1, end_sample_number |-> 1]>>, "micro", "Ascii",
             <<"2">>) : rev \in DOMAIN IdTokens}

StrayLine == << <<"?">> >>

CutCfgs == UNION {{SubSeq(f, 1, k) : k \in 1..(Len(f) - 1)} : f \in BaseCfgs}

StrayCfgs == UNION {{[f EXCEPT ![k] = StrayLine] : k \in 1..(Len(f) - 1)} : f \in BaseCfgs}

\* the file the variants of one line are made from
VariantBase(rev) ==
    MakeCfg(rev, 0, 1, <<[rate_hz |-> 1, end_sample_number |-> 1]>>, "micro", "Ascii",
            <<"2">>)

\* identity lines with a third field that names no revision
IdCfgs ==
    {[VariantBase("none") EXCEPT ![1] = Append(@, third)] :
        third \in {<<>>, <<"2", "0", "0", "0">>, <<"1", "9", "9">>, <<"x">>,
                   <<" ", "1", "9", "9", "9", " ">>}}

\* status rows by declared index and normal-status field
StatusCfgs ==
    {[VariantBase(rev) EXCEPT ![3] = [@ EXCEPT ![1] = index, ![5] = normal]] :
        rev \in {"r1999"}, index \in {<<"1">>, <<"7">>},
        normal \in {<<"0">>, <<"1">>, <<"2">>, <<"2", "5", "5">>, <<"2", "5", "6">>,
                    <<"-", "1">>}}

\* 13/01/2000 is a date when the day is first, 01/13/2000 when the month is
DateTokens == {DateToken,
               <<"1", "3", "/", "0", "1", "/", "2", "0", "0", "0">>,
               <<"0", "1", "/", "1", "3", "/", "2", "0", "0", "0">>}

\* times with 0, 1, 6, 7 and 10 fractional digits
TimeVariants ==
    {SubSeq(TimeTokens.nano, 1, 8)}
    \cup {SubSeq(TimeTokens.nano, 1, 9 + digits) : digits \in {1, 6, 7}}
    \cup {TimeTokens.nano \o <<"0", "0", "1">>}

\* the start-time line is line 7 of the base file, the trigger-time line line 8
DateCfgs ==
    {[VariantBase(rev) EXCEPT ![7] = [@ EXCEPT ![1] = start],
                              ![8] = [@ EXCEPT ![1] = trigger]] :
        rev \in DOMAIN IdTokens, start \in DateTokens, trigger \in DateTokens}

TimeCfgs ==
    {[VariantBase(rev) EXCEPT ![7] = [@ EXCEPT ![2] = start],
                              ![8] = [@ EXCEPT ![2] = trigger]] :
        rev \in {"r1999"}, start \in TimeVariants, trigger \in TimeVariants}

\* channel-count lines: tokens with and without their suffix letter, with
\* another letter, with no digits, and lines of one and of two fields
TotalTokens == {<<"1">>, <<"x">>, <<>>}

AnalogCountTokens ==
    {<<"0", "A">>, <<"0", "a">>, <<"x", "A">>, <<"A">>, <<"1", "x">>, <<"1", "2", "A">>,
     <<"1", "2">>}

StatusCountTokens == {<<"1", "D">>, <<"1", "d">>, <<"x", "D">>, <<"1", "y">>, <<"1", "2">>}

CountLines ==
    {<<total, analog, status>> :
        total \in TotalTokens, analog \in AnalogCountTokens, status \in StatusCountTokens}
    \cup {<<total>> : total \in TotalTokens}
    \cup {<<total, analog>> : total \in {<<"1">>}, analog \in AnalogCountTokens}

CountCfgs == {[VariantBase("r1999") EXCEPT ![2] = line] : line \in CountLines}

\* channel rows with one field less and with one field more
RowBase ==
    MakeCfg("r1999", 1, 1, <<[rate_hz |-> 1, end_sample_number |-> 1]>>, "micro", "Ascii",
            <<"2">>)

RowVariants(row) == {row, SubSeq(row, 1, Len(row) - 1), Append(row, <<"0">>)}

RowCfgs ==
    {[RowBase EXCEPT ![3] = analog, ![4] = status] :
        analog \in RowVariants(AnalogRow(1)), status \in RowVariants(StatusRow(1))}

CfgFiles ==
    WellFormedCfgs \cup CutCfgs \cup StrayCfgs \cup {EmptyString}
    \cup IdCfgs \cup StatusCfgs \cup DateCfgs \cup TimeCfgs \cup CountCfgs \cup RowCfgs

\* a row of text data for sample n
AsciiRowFor(p, n, with_timestamp) ==
    <<Dec(n), IF with_timestamp THEN Dec(5 * n) ELSE <<>> >>
    \o [c \in 1..p.num_analog_channels |-> <<"-">> \o Dec(n + c)]
    \o [c \in 1..p.num_status_channels |-> Dec((n + c) % 2)]

BlankLine == << <<" ">> >>

AsciiData(p, first, count, with_timestamp) ==
    [k \in 1..count |-> AsciiRowFor(p, first + k - 1, with_timestamp)] \o << <<<<>>>> >>

RowCounts(p) == 0..(p.total_num_samples + 1)

\* one row, then a defective row
AsciiDefects(p) ==
    LET good == AsciiRowFor(p, 1, TRUE)
        n == Len(good)
    IN {<<good, BlankLine, row>> : row \in
           {SubSeq(good, 1, n - 1), Append(good, <<"0">>),
            [good EXCEPT ![1] = <<"x">>], [good EXCEPT ![2] = <<"x">>],
            [good EXCEPT ![n] = <<"x">>], [good EXCEPT ![n] = <<"2">>]}}
       \cup {<<[AsciiRowFor(p, 0, TRUE) EXCEPT ![n] = <<"x">>]>>}

AsciiFiles(p) ==
    {AsciiData(p, 1, count, ts) : count \in RowCounts(p), ts \in BOOLEAN}
    \cup {AsciiData(p, 0, count, TRUE) : count \in RowCounts(p)}
    \cup AsciiDefects(p)

\* little-endian encoding of the fixed-width fields
EncodeU16(n) == <<n % ByteRange, n \div ByteRange>>

EncodeU32(x) == EncodeU16(x.lo) \o EncodeU16(x.hi)

\* the largest e with 2^e <= n
RECURSIVE Log2(_)
Log2(n) == IF n < 2 THEN 0 ELSE 1 + Log2(n \div 2)

\* the binary32 of -n for a small natural n >= 1
EncodeF32Negative(n) ==
    LET e == Log2(n)
        fraction == (n - 2 ^ e) * 2 ^ (F32FractionBits - e)
    IN EncodeU32([hi |-> Limb \div 2 + (F32Bias + e) * 2 ^ 7 + fraction \div Limb,
                  lo |-> fraction % Limb])

\* the analog value -n in the encoding of the data format
EncodeAnalog(data_format, n) ==
    CASE data_format = "Binary16" -> EncodeU16(Limb - n)
      [] data_format = "Binary32" -> EncodeU32([hi |-> Limb - 1, lo |-> Limb - n])
      [] OTHER -> EncodeF32Negative(n)

RECURSIVE Flatten(_)
Flatten(seqs) == IF seqs = <<>> THEN <<>> ELSE Head(seqs) \o Flatten(Tail(seqs))

BinaryRecordFor(p, n, with_timestamp) ==
    EncodeU32(U32(n))
    \o EncodeU32(IF with_timestamp THEN U32(5 * n) ELSE TIMESTAMP_MISSING)
    \o Flatten([c \in 1..p.num_analog_channels |-> EncodeAnalog(p.data_format.v, n + c)])
    \o Flatten([g \in DOMAIN PackStatus([c \in 1..p.num_status_channels |-> (n + c) % 2]) |->
                  EncodeU16(PackStatus([c \in 1..p.num_status_channels |-> (n + c) % 2])[g])])

BinaryData(p, first, count, with_timestamp) ==
    Flatten([k \in 1..count |-> BinaryRecordFor(p, first + k - 1, with_timestamp)])

\* the complete data cut inside each field of its first and of its last record
BinaryCuts(p) ==
    LET whole == BinaryData(p, 1, p.total_num_samples, TRUE)
        record == Len(BinaryRecordFor(p, 1, TRUE))
        analogs == p.num_analog_channels * AnalogWidth(p.data_format.v)
        inside == {2, 6} \cup (IF analogs > 0 THEN {9} ELSE {})
                  \cup (IF record > 8 + analogs THEN {8 + analogs + 1} ELSE {})
    IN {SubSeq(whole, 1, start + k) :
           start \in {0, (p.total_num_samples - 1) * record}, k \in inside}

BinaryFiles(p) ==
    {BinaryData(p, 1, count, ts) : count \in RowCounts(p), ts \in BOOLEAN}
    \cup {BinaryData(p, 0, count, TRUE) : count \in RowCounts(p)}
    \cup BinaryCuts(p)

\* the combined stream: section headers and the lines of the sections
FileTypeTokens == [Cfg |-> <<"C", "F", "G">>, Dat |-> <<"D", "A", "T">>,
                   Hdr |-> <<"H", "D", "R">>, Inf |-> <<"i", "n", "f">>]

\* what stands between the TYPE and the closing dashes of a data header
HeaderTails == [none |-> <<>>,
                Ascii |-> <<" ">> \o FormatTokens.Ascii,
                Binary16 |-> <<" ">> \o FormatTokens.Binary16 \o <<":", " ", "1", "6">>,
                Binary32 |-> <<" ">> \o FormatTokens.Binary32 \o <<":", " ", "2", "4">>,
                Float32 |-> <<" ">> \o FormatTokens.Float32]

HeaderLine(type_token, tail) ==
    << Dashes \o <<" ">> \o FileTypeLabel \o <<" ">> \o type_token \o tail \o <<" ">>
       \o Dashes >>

NoteLine == << <<"n", "o", "t", "e">> >>

\* the lines of a configuration file without the empty line that closes it
CfgLinesOf(f) == SubSeq(f, 1, Len(f) - 1)

CffTables == {<<[rate_hz |-> 1, end_sample_number |-> e]>> : e \in 0..1}

\* the sections in the order of the standard, with `rows` rows of text data
MakeCff(rev, table, fmt, tail, rows) ==
    LET p == [num_analog_channels |-> 1, num_status_channels |-> 1]
    IN <<HeaderLine(FileTypeTokens.Cfg, <<>>)>>
       \o CfgLinesOf(MakeCfg(rev, 1, 1, table, "micro", fmt, <<"2">>))
       \o <<HeaderLine(FileTypeTokens.Inf, <<>>), NoteLine>>
       \o <<HeaderLine(FileTypeTokens.Hdr, <<>>)>>
       \o <<HeaderLine(FileTypeTokens.Dat, HeaderTails[tail])>>
       \o [k \in 1..rows |-> AsciiRowFor(p, k, TRUE)]

WellFormedCffs ==
    {MakeCff(rev, table, fmt, tail, rows) :
        rev \in {"r1991", "r1999", "r2013"}, table \in CffTables,
        fmt \in DOMAIN FormatTokens, tail \in DOMAIN HeaderTails, rows \in 0..1}

\* a stream whose sections recur: the configuration and the data in two parts
RecurringCff ==
    LET cfg == CfgLinesOf(MakeCfg("r2013", 1, 1, <<[rate_hz |-> 1, end_sample_number |-> 2]>>,
                                  "micro", "Ascii", <<"2">>))
        p == [num_analog_channels |-> 1, num_status_channels |-> 1]
    IN <<HeaderLine(FileTypeTokens.Cfg, <<>>)>> \o SubSeq(cfg, 1, 4)
       \o <<HeaderLine(FileTypeTokens.Dat, HeaderTails.Ascii), AsciiRowFor(p, 1, TRUE)>>
       \o <<HeaderLine(FileTypeTokens.Hdr, <<>>), NoteLine>>
       \o <<HeaderLine(FileTypeTokens.Cfg, <<>>)>> \o SubSeq(cfg, 5, Len(cfg))
       \o <<HeaderLine(FileTypeTokens.Hdr, <<>>), BlankLine, NoteLine>>
       \o <<HeaderLine(FileTypeTokens.Dat, <<>>), AsciiRowFor(p, 2, TRUE)>>

\* streams that begin with something else than a well-formed header, or hold
\* a header with an unknown TYPE or ENCODING
DefectiveCffs ==
    LET good == MakeCff("r2013", <<[rate_hz |-> 1, end_sample_number |-> 1]>>, "Ascii",
                        "Ascii", 1)
    IN {<<first>> \o good : first \in
           {NoteLine, BlankLine, << <<"1">>, <<"2">> >>,
            HeaderLine(<<"x", "y", "z">>, <<>>),
            HeaderLine(FileTypeTokens.Dat, <<" ", "x", "y", "z">>),
            HeaderLine(FileTypeTokens.Dat, HeaderTails.Binary32),
            << <<"1">>, <<"x">> \o HeaderLine(FileTypeTokens.Hdr, <<>>)[1] >>}}
       \cup {<<>>, SubSeq(good, 1, 3)}

CffFiles == WellFormedCffs \cup {RecurringCff} \cup DefectiveCffs

\* the combined streams that are handed over together with separate streams
CombinedCffs ==
    {RecurringCff}
    \cup {MakeCff(rev, <<[rate_hz |-> 1, end_sample_number |-> 1]>>, "Ascii", tail, 1) :
             rev \in {"r1999", "r2013"}, tail \in {"none", "Ascii"}}

Annotations == {<< <<<<"n", "o", "t", "e">> >> >>}

Stream == Some("stream")

\* which streams the caller handed to the builder of the parser; the combined
\* stream is given with its content
FileSets ==
    {[cff |-> None, cfg |-> cfg, dat |-> dat, hdr |-> notes, inf |-> notes] :
        cfg \in {Stream}, dat \in {Stream}, notes \in {None, Stream}}
    \cup {[cff |-> None, cfg |-> None, dat |-> Stream, hdr |-> None, inf |-> None],
          [cff |-> None, cfg |-> Stream, dat |-> None, hdr |-> None, inf |-> None]}
    \cup {[cff |-> Some(lines), cfg |-> None, dat |-> None, hdr |-> None, inf |-> None] :
             lines \in CffFiles}
    \cup {[cff |-> Some(lines), cfg |-> Stream, dat |-> Stream, hdr |-> notes,
           inf |-> notes] : lines \in CombinedCffs, notes \in {None, Stream}}

----------------------------------------------------------------------------
(* parser/mod.rs parse(): the streams are read whole, each at its place in  *)
(* the run.                                                                 *)

\* parse(): no combined stream, the configuration stream is read to its end
ReadCfg ==
    /\ pc = "start"
    /\ ~files.cff.some
    /\ IF files.cfg.some
       THEN /\ \E text \in CfgFiles : self' = [self EXCEPT !.cfg_contents = text]
            /\ pc' = "cfg_id"
            /\ loc' = LocCfg
            /\ UNCHANGED outcome
       ELSE /\ Fail(Err(ParseError("you must specify either .cff or .cfg file")))
            /\ UNCHANGED <<self, loc>>
    /\ UNCHANGED <<overflow_checks, files, call>>

\* parse(): read_to_string on the configuration stream fails
ReadCfgFails ==
    /\ pc = "start"
    /\ ~files.cff.some
    /\ files.cfg.some
    /\ Fail(Err(ParseError("unable to read specified .cfg file")))
    /\ UNCHANGED <<overflow_checks, files, self, loc, call>>

\* parse(): the data stream is read whole into the buffer of the data format,
\* and parse_dat starts the decoder of that format
ReadDat ==
    /\ pc = "dat_read"
    /\ ~files.cff.some
    /\ IF ~files.dat.some
       THEN /\ Fail(Err(ParseError("you must specify either .cff or .dat file")))
            /\ UNCHANGED <<self, loc>>
       ELSE IF ~self.data_format.some
       THEN /\ Fail(Err(ParseError("unknown data format for data file.")))
            /\ UNCHANGED <<self, loc>>
       ELSE IF self.data_format.v = "Ascii"
       THEN /\ \E text \in AsciiFiles(self) :
                  /\ self' = [self EXCEPT !.ascii_dat_contents = text]
                  /\ loc' = [rows |-> NonBlank(text), i |-> 0,
                             sample_numbers |-> <<>>, timestamps |-> <<>>]
            /\ pc' = "dat_ascii"
            /\ UNCHANGED outcome
       ELSE /\ \E bytes \in BinaryFiles(self) :
                  self' = [self EXCEPT !.binary_dat_contents = bytes]
            /\ loc' = [cursor |-> 0, i |-> 0,
                       sample_numbers |-> <<>>, timestamps |-> <<>>]
            /\ pc' = "dat_binary"
            /\ UNCHANGED outcome
    /\ UNCHANGED <<overflow_checks, files, call>>

\* parse(): read_to_string / read_to_end on the data stream fails
ReadDatFails ==
    /\ pc = "dat_read"
    /\ ~files.cff.some
    /\ files.dat.some
    /\ self.data_format.some
    /\ Fail(Err(ParseError("unable to read specified .dat file")))
    /\ UNCHANGED <<overflow_checks, files, self, loc, call>>

\* the same end of parse(), with the annotation streams read whenever they
\* are present
FinishReadingAnnotations ==
    /\ pc = "annotations"
    /\ \E hdr \in Annotations, inf \in Annotations :
          LET read == [self EXCEPT
                          !.hdr_contents = IF files.hdr.some THEN hdr ELSE @,
                          !.inf_contents = IF files.inf.some THEN inf ELSE @]
              built == [read EXCEPT !.builder =
                           Set(Set(@, "analog_channels", read.analog_channels),
                               "status_channels", read.status_channels)]
              unset == {f \in BuilderFields : ~built.builder[f].some}
          IN /\ self' = built
             /\ pc' = "done"
             /\ outcome' = Some(IF unset = {}
                                THEN Ok([f \in BuilderFields |-> built.builder[f].v])
                                ELSE Panic("called Result::unwrap on an Err value: UninitializedField"))
    /\ UNCHANGED <<overflow_checks, files, loc, call>>

\* parse(): the annotation streams are read if present, the channels are handed
\* to the builder, and build() is unwrapped
Finish ==
    /\ pc = "annotations"
    /\ \E hdr \in Annotations, inf \in Annotations :
          LET read == [self EXCEPT
                          !.hdr_contents = IF files.hdr.some /\ ~files.cff.some
                                           THEN hdr ELSE @,
                          !.inf_contents = IF files.inf.some /\ ~files.cff.some
                                           THEN inf ELSE @]
              built == [read EXCEPT !.builder =
                           Set(Set(@, "analog_channels", read.analog_channels),
                               "status_channels", read.status_channels)]
              unset == {f \in BuilderFields : ~built.builder[f].some}
          IN /\ self' = built
             /\ pc' = "done"
             /\ outcome' = Some(IF unset = {}
                                THEN Ok([f \in BuilderFields |-> built.builder[f].v])
                                ELSE Panic("called Result::unwrap on an Err value: UninitializedField"))
    /\ UNCHANGED <<overflow_checks, files, loc, call>>

\* parse(): read_to_string on an annotation stream fails
ReadAnnotationFails ==
    /\ pc = "annotations"
    /\ ~files.cff.some
    /\ \/ /\ files.hdr.some
          /\ Fail(Err(ParseError("unable to read specified .hdr file")))
       \/ /\ files.inf.some
          /\ Fail(Err(ParseError("unable to read specified .inf file")))
    /\ UNCHANGED <<overflow_checks, files, self, loc, call>>

Init ==
    /\ overflow_checks \in BOOLEAN
    /\ files \in FileSets
    /\ self = ComtradeParser_new
    /\ pc = "start"
    /\ loc = None
    /\ outcome = None
    /\ call = NoCall

Next ==
    \/ ReadCfg
    \/ ReadCfgFails
    \/ LoadCff
    \/ CffReadLineFails
    \/ CffHeaderLine
    \/ CffContentLine
    \/ LoadCffDone
    \/ ParseDatOfCff
    \/ CfgIdLine
    \/ CfgChannelCounts
    \/ CfgAnalogRow
    \/ CfgStatusRow
    \/ CfgLineFrequency
    \/ CfgSamplingRateCount
    \/ CfgSamplingRate
    \/ CfgTotalSamples
    \/ CfgStartTime
    \/ CfgTriggerTime
    \/ CfgDataFormat
    \/ CfgTimeMult
    \/ CfgTimeOffset
    \/ CfgTimeQuality
    \/ ReadDat
    \/ ReadDatFails
    \/ DatAsciiRow
    \/ DatAsciiDone
    \/ DatBinaryRecord
    \/ DatBinaryDone
    \/ Finish
    \/ ReadAnnotationFails

Spec == Init /\ [][Next]_vars


----------------------------------------------------------------------------
(* Properties of parse() (Spec).  At pc = "done" the parser still holds the *)
(* buffers it read, so the input of the run can be read back from self.     *)

Ended == pc = "done"

Returned == Ended /\ outcome.v.tag = "Ok"

\* a stream could not be read: no property of the content of the input
IoFailed ==
    /\ Ended
    /\ outcome.v.tag = "Err"
    /\ outcome.v.kind.variant = "ParseError"
    /\ outcome.v.kind.message \in {"unable to read specified .cfg file",
                                   "unable to read specified .dat file",
                                   "unable to read specified .hdr file",
                                   "unable to read specified .inf file"}

WellFormedCfg == self.cfg_contents \in WellFormedCfgs

IdLine == self.cfg_contents[1]

IsRev1991Input ==
    Len(IdLine) = 2 \/ (Len(IdLine) = 3 /\ IdLine[3] = <<"1", "9", "9", "1">>)

IsRev1999Input == Len(IdLine) = 3 /\ IdLine[3] = <<"1", "9", "9", "9">>

\* the channel counts and the sampling-rate count as written in a well-formed file
DeclaredAnalog == DigitsValue(DropLastChar(self.cfg_contents[2][2]), 0)

DeclaredStatus == DigitsValue(DropLastChar(self.cfg_contents[2][3]), 0)

RateCountIndex == DeclaredAnalog + DeclaredStatus + 4

DeclaredRateCount == DigitsValue(self.cfg_contents[RateCountIndex][1], 0)

DeclaredTable ==
    [i \in 1..DeclaredRateCount |->
        [rate_hz |-> DigitsValue(self.cfg_contents[RateCountIndex + i][1], 0),
         end_sample_number |-> DigitsValue(self.cfg_contents[RateCountIndex + i][2], 0)]]

DeclaredTotal ==
    IF DeclaredRateCount = 0 THEN 0
    ELSE CHOOSE e \in {DeclaredTable[i].end_sample_number : i \in DOMAIN DeclaredTable} :
             \A i \in DOMAIN DeclaredTable : DeclaredTable[i].end_sample_number <= e

\* the data stream was read and holds one record per sample, numbered from 1
CompleteData ==
    /\ self.data_format.some
    /\ IF self.data_format.v = "Ascii"
       THEN \E ts \in BOOLEAN :
               self.ascii_dat_contents = AsciiData(self, 1, self.total_num_samples, ts)
       ELSE \E ts \in BOOLEAN :
               self.binary_dat_contents = BinaryData(self, 1, self.total_num_samples, ts)

\* C1: when the configuration declared 0 sampling rates (timestamp-critical
\* mode), a data row without a stored timestamp makes parse() return an error.
\* The content of the data stream is free until it is read, so every run on a
\* well-formed zero-rate configuration with a data stream is a run on such an
\* input: once it has ended it has returned an error, or, for data whose rows
\* all carry a timestamp, a record whose times are all stored times.
C1_AbsentTimestampIsError ==
    (Ended /\ WellFormedCfg /\ DeclaredRateCount = 0 /\ files.dat.some /\ ~IoFailed)
    => \/ outcome.v.tag = "Err"
       \/ /\ outcome.v.tag = "Ok"
          /\ self.is_timestamp_critical
          /\ \A i \in DOMAIN outcome.v.v.timestamps :
                outcome.v.v.timestamps[i].den \in {Microseconds, Nanoseconds}

\* C2: a configuration whose sampling-rate-count line is 0 is accepted: the
\* step after the count line consumes exactly one further line, leaves the
\* table empty, sets timestamp-critical mode and goes on to the start-time line.
C2_ZeroRateCountAccepted ==
    [][(pc = "cfg_total" /\ loc.num_sampling_rates = 0 /\ NextLine.some)
       => /\ pc' = "cfg_start"
          /\ loc'.lines_read = loc.lines_read + 1
          /\ self'.is_timestamp_critical
          /\ self'.builder.sampling_rates = Some(<<>>)]_vars

\* C3: for every well-formed Rev1991 input (two-field identity line or token
\* 1991) parse() succeeds, and the record has multiplication factor 1.0 and
\* time offset, local offset, clock quality and leap-second indicator unset.
C3_Rev1991Defaults ==
    (Ended /\ WellFormedCfg /\ IsRev1991Input /\ DeclaredRateCount > 0
        /\ CompleteData /\ ~IoFailed)
    => /\ outcome.v.tag = "Ok"
       /\ outcome.v.v.timestamp_multiplication_factor = 1
       /\ outcome.v.v.time_offset = None
       /\ outcome.v.v.local_offset = None
       /\ outcome.v.v.time_quality = None
       /\ outcome.v.v.leap_second_status = None

\* the multiplication-factor line of a Rev1999 file: the line after the
\* data-format line
MultLineIndex == RateCountIndex + DeclaredRateCount + 4

MultOnLine == ParseI32(self.cfg_contents[MultLineIndex][1])

\* the Rev1999 files whose multiplication-factor line does not parse
BadMultCfgs ==
    {[f EXCEPT ![Len(f) - 1] = StrayLine] :
        f \in {g \in WellFormedCfgs : Len(g[1]) = 3 /\ g[1][3] = <<"1", "9", "9", "9">>}}

\* C4: for every well-formed Rev1999 input the record's multiplication factor
\* is the value on the multiplication-factor line, and time offset, local
\* offset, clock quality and leap-second indicator are unset; an unparsable
\* multiplication-factor line is a fatal error (1.0 is not substituted).
C4_Rev1999Gating ==
    /\ (Ended /\ WellFormedCfg /\ IsRev1999Input /\ DeclaredRateCount > 0
           /\ CompleteData /\ ~IoFailed)
       => /\ outcome.v.tag = "Ok"
          /\ outcome.v.v.timestamp_multiplication_factor = MultOnLine.v
          /\ outcome.v.v.time_offset = None
          /\ outcome.v.v.local_offset = None
          /\ outcome.v.v.time_quality = None
          /\ outcome.v.v.leap_second_status = None
    /\ (Ended /\ self.cfg_contents \in BadMultCfgs /\ ~IoFailed)
       => /\ outcome.v.tag = "Err"
          /\ outcome.v.kind.variant = "InvalidValue"
    /\ (Returned /\ outcome.v.v.revision = "Revision1999")
       => outcome.v.v.timestamp_multiplication_factor = MultOnLine.v

\* a Rev1999 record was returned whose factor, 3, is the one on the line
C4_Rev1999Returned ==
    /\ Returned
    /\ WellFormedCfg /\ IsRev1999Input /\ CompleteData
    /\ MultOnLine = Some(3)
    /\ outcome.v.v.timestamp_multiplication_factor = 3
    /\ outcome.v.v.leap_second_status = None

\* C5: after every successful parse(), in text and in binary mode, there are
\* as many analog and status channels as declared, and every channel's data,
\* the sample indices and the times have length total sample count (the
\* largest end-sample-index of the sampling-rate table).
C5_LengthsAreTotalSamples ==
    Returned =>
        LET record == outcome.v.v
        IN /\ Len(record.analog_channels) = DeclaredAnalog
           /\ Len(record.status_channels) = DeclaredStatus
           /\ \A i \in DOMAIN record.analog_channels :
                 Len(record.analog_channels[i].data) = DeclaredTotal
           /\ \A i \in DOMAIN record.status_channels :
                 Len(record.status_channels[i].data) = DeclaredTotal
           /\ Len(record.sample_numbers) = DeclaredTotal
           /\ Len(record.timestamps) = DeclaredTotal

\* the bytes of one binary record of the parsed configuration
RecordBytes ==
    8 + AnalogWidth(self.data_format.v) * self.num_analog_channels
      + 2 * CeilDiv(self.num_status_channels, StatusGroupBits)

\* the binary data was read and ends before total_num_samples complete records
BinaryCutShort ==
    /\ (pc = "dat_binary" \/ Ended)
    /\ self.data_format.some
    /\ self.data_format.v # "Ascii"
    /\ "cursor" \in DOMAIN loc
    /\ Len(self.binary_dat_contents) < self.total_num_samples * RecordBytes

\* C10: in binary mode, when the data bytes end before total_sample_count
\* complete records (inside any field), parse() returns a structured decode
\* error; it does not abort.
C10_TruncatedBinaryIsError ==
    (Ended /\ BinaryCutShort /\ ~IoFailed) => outcome.v.tag = "Err"

----------------------------------------------------------------------------
(* Properties of the demultiplexer (Spec).  The combined stream is          *)
(* files.cff.v; while load_cff runs, and when parse() ended inside it, loc   *)
(* holds its locals.                                                        *)

InLoadCff == files.cff.some /\ "current_file" \in DOMAIN loc

\* read_line on the combined stream failed: no property of its content
CffIoFailed == outcome = Some(Panic("called Result::unwrap on an Err value: read_line"))

\* the line load_cff read last, trimmed
LastCffLine == TrimLine(files.cff.v[loc.lines_read])

\* C11: a non-header line that arrives while the current section is the data
\* section and the selected encoding is not the text encoding (a binary
\* encoding, or no encoding token seen) makes load_cff return an error; it
\* does not abort, and the line is placed in no buffer.
C11_NonTextDataIsUnsupportedError ==
    (Ended /\ InLoadCff /\ ~CffIoFailed /\ loc.lines_read > 0
        /\ loc.current_file = Some("Dat") /\ loc.data_format # Some("Ascii")
        /\ ~CffHeaderCaptures(LastCffLine).some)
    => /\ outcome.v.tag = "Err"
       /\ loc.cfg_lines \o loc.dat_lines \o loc.hdr_lines \o loc.inf_lines
             = SubSeq(loc.cfg_lines \o loc.dat_lines \o loc.hdr_lines \o loc.inf_lines,
                      1, loc.lines_read - 1)
       /\ self.ascii_dat_contents = EmptyString

\* the first line of the combined stream is no header
FirstLineIsNoHeader ==
    /\ files.cff.some
    /\ Len(files.cff.v) > 0
    /\ ~CffHeaderCaptures(TrimLine(files.cff.v[1])).some

GrammarHeaderType(line) ==
    LET types == {t \in DOMAIN FileTypeTokens :
                     \E tail \in DOMAIN HeaderTails : line = HeaderLine(FileTypeTokens[t], HeaderTails[tail])}
    IN IF types = {} THEN None ELSE Some(CHOOSE t \in types : TRUE)

\* the TYPE named by the most recent header among the first k lines
RECURSIVE SectionAt(_, _)
SectionAt(lines, k) ==
    IF k = 0 THEN None
    ELSE IF GrammarHeaderType(TrimLine(lines[k])).some
         THEN GrammarHeaderType(TrimLine(lines[k]))
         ELSE SectionAt(lines, k - 1)

\* the non-header lines among the first k that follow a header of TYPE type
RECURSIVE SectionLines(_, _, _)
SectionLines(lines, type, k) ==
    IF k = 0 THEN <<>>
    ELSE IF ~GrammarHeaderType(TrimLine(lines[k])).some /\ SectionAt(lines, k) = Some(type)
         THEN Append(SectionLines(lines, type, k - 1), TrimLine(lines[k]))
         ELSE SectionLines(lines, type, k - 1)

NonHeaderLines(lines) ==
    {k \in 1..Len(lines) : ~GrammarHeaderType(TrimLine(lines[k])).some}

\* C13: when load_cff succeeds, each non-header line is in exactly one
\* buffer, that of the TYPE named by the most recent preceding header, in
\* input order (also when a TYPE recurs); header lines are in no buffer, and
\* the line counts of the four buffers sum to the number of non-header lines.
C13_LinesGoToTheirSection ==
    /\ (pc = "cff_line" /\ loc.lines_read = Len(files.cff.v))
       => /\ loc.cfg_lines = SectionLines(files.cff.v, "Cfg", Len(files.cff.v))
          /\ loc.dat_lines = SectionLines(files.cff.v, "Dat", Len(files.cff.v))
          /\ loc.hdr_lines = SectionLines(files.cff.v, "Hdr", Len(files.cff.v))
          /\ loc.inf_lines = SectionLines(files.cff.v, "Inf", Len(files.cff.v))
          /\ Len(loc.cfg_lines) + Len(loc.dat_lines) + Len(loc.hdr_lines)
                + Len(loc.inf_lines) = Cardinality(NonHeaderLines(files.cff.v))
    /\ (files.cff.some /\ pc \notin {"start", "cff_line"} /\ ~InLoadCff)
       => /\ self.cfg_contents = JoinLines(SectionLines(files.cff.v, "Cfg", Len(files.cff.v)))
          /\ self.ascii_dat_contents
                = JoinLines(SectionLines(files.cff.v, "Dat", Len(files.cff.v)))
          /\ self.hdr_contents = JoinLines(SectionLines(files.cff.v, "Hdr", Len(files.cff.v)))
          /\ self.inf_contents = JoinLines(SectionLines(files.cff.v, "Inf", Len(files.cff.v)))

\* C14: when the data header of the combined stream carries an ENCODING
\* token, the data buffer is decoded in the mode the token names and the
\* record's data encoding equals it.
C14_HeaderEncodingSelected ==
    (files.cff.some /\ pc \in {"dat_ascii", "dat_binary", "done"})
    => \A rev \in {"r1991", "r1999", "r2013"}, table \in CffTables,
          fmt \in DOMAIN FormatTokens, tail \in DOMAIN HeaderTails \ {"none"}, rows \in 0..1 :
           files.cff = Some(MakeCff(rev, table, fmt, tail, rows))
           => /\ pc = "dat_ascii" => tail = "Ascii"
              /\ pc = "dat_binary" => tail # "Ascii"
              /\ Returned => outcome.v.v.data_format = tail

\* C15: parse() ends in exactly one of two outcomes, a complete record or a
\* single error (the first violation in processing order); it does not end
\* in any other way.
C15_RecordOrSingleError ==
    (Ended /\ ~CffIoFailed) => outcome.v.tag \in {"Ok", "Err"}

----------------------------------------------------------------------------
(* C16: the normal state of a status channel.                               *)

\* parse_cfg is running or ended: loc is its frame
InParseCfg == "format_revision" \in DOMAIN loc

\* the k-th status row of the configuration
StatusRowAt(k) == self.cfg_contents[2 + self.num_analog_channels + k]

\* parse_cfg ended on the status row after the ones it accepted
EndedOnStatusRow ==
    /\ Ended
    /\ InParseCfg
    /\ self.num_status_channels > 0
    /\ Len(loc.analog_channels) = self.num_analog_channels
    /\ Len(loc.status_channels) < self.num_status_channels
    /\ loc.lines_read = 2 + self.num_analog_channels + Len(loc.status_channels) + 1

RejectedStatusRow == StatusRowAt(Len(loc.status_channels) + 1)

\* the accepted status channels carry the normal state 0 or 1 of their rows
AcceptedNormalStatus ==
    (InParseCfg /\ self.cfg_contents \in StatusCfgs) =>
        \A k \in DOMAIN loc.status_channels :
            /\ loc.status_channels[k].normal_status_value \in {0, 1}
            /\ Some(loc.status_channels[k].normal_status_value)
                   = ParseU8(trim(StatusRowAt(k)[5]))

----------------------------------------------------------------------------
(* C17: the revision token of the identity line.                            *)

\* C17: on the identity line an absent third field gives Revision1991, a
\* third field of exactly 1991, 1999 or 2013 gives the matching revision,
\* and any other third field, an empty one included, ends decoding with
\* BadRevisionFormat carrying the token; it is never defaulted.
C17_RevisionOfIdentityLine ==
    (InParseCfg /\ loc.lines_read >= 1 /\ Len(IdLine) \in {2, 3}) =>
        IF Len(IdLine) = 2
        THEN loc.format_revision = "Revision1991"
        ELSE LET token == trim(IdLine[3])
                 revision == ParseFormatRevision(token)
             IN IF revision.some
                THEN loc.format_revision = revision.v
                ELSE /\ Ended
                     /\ loc.lines_read = 1
                     /\ outcome.v = Err(BadRevisionFormat(token))

----------------------------------------------------------------------------
(* C18, C19: the precision of the time stamps.                              *)

StartLineIndex == RateCountIndex + DeclaredRateCount + 1

TriggerLineIndex == StartLineIndex + 1

\* the number of digits after the period of a time hh:mm:ss[.f]
FractionDigits(time) ==
    LET sections == split(time, ".")
    IN IF Len(sections) < 2 THEN 0 ELSE Len(sections[Len(sections)])

StartDigits == FractionDigits(trim(self.cfg_contents[StartLineIndex][2]))

TriggerDigits == FractionDigits(trim(self.cfg_contents[TriggerLineIndex][2]))

PrecisionOfDigits(n) == IF n <= 6 THEN "Microseconds" ELSE "Nanoseconds"

\* parse_cfg ended on line k of the configuration
EndedOnLine(k) == Ended /\ InParseCfg /\ loc.lines_read = k

\* C18: for a start-time or trigger-time line with a time hh:mm:ss[.f], the
\* inferred precision is Microseconds when the time has 1 to 6 fractional
\* digits and Nanoseconds when it has 7 or more; a time with no fractional
\* digits ends decoding with CantFindTimestampPrecision.
C18_PrecisionFromFractionDigits ==
    (InParseCfg /\ self.cfg_contents \in TimeCfgs) =>
        /\ (loc.lines_read >= StartLineIndex /\ StartDigits = 0) =>
               /\ EndedOnLine(StartLineIndex)
               /\ outcome.v = Err(CantFindTimestampPrecision)
        /\ (loc.lines_read >= StartLineIndex /\ StartDigits >= 1) =>
               /\ ~EndedOnLine(StartLineIndex)
               /\ self.builder.start_time.some
               /\ pc = "cfg_trigger" =>
                      self.ts_base_unit = to_value(PrecisionOfDigits(StartDigits))
        /\ (loc.lines_read >= TriggerLineIndex /\ TriggerDigits = 0) =>
               /\ EndedOnLine(TriggerLineIndex)
               /\ outcome.v = Err(CantFindTimestampPrecision)
        /\ (loc.lines_read >= TriggerLineIndex /\ TriggerDigits >= 1) =>
               /\ ~EndedOnLine(TriggerLineIndex)
               /\ self.builder.trigger_time.some
               /\ (pc = "cfg_format" /\ StartDigits <= 6) =>
                      self.ts_base_unit = to_value(PrecisionOfDigits(TriggerDigits))

\* a start time with 6 fractional digits was read as Microseconds
C18_SixDigitsAreMicroseconds ==
    /\ pc = "cfg_trigger"
    /\ self.cfg_contents \in TimeCfgs
    /\ StartDigits = 6
    /\ self.builder.start_time.some
    /\ self.ts_base_unit = to_value("Microseconds")

\* both time lines of the configuration were read
BothTimesRead ==
    \/ ~InParseCfg
    \/ loc.lines_read > TriggerLineIndex
    \/ loc.lines_read = TriggerLineIndex /\ ~Ended

\* C19: the base time unit of the record is the finer of the two
\* precisions: 1e-9 when either time line has 7 or more fractional digits,
\* 1e-6 only when both have 6 or fewer, whichever line is the finer one.
C19_FinerOfBothLines ==
    (self.cfg_contents \in TimeCfgs /\ BothTimesRead) =>
        self.ts_base_unit =
            IF StartDigits >= 7 \/ TriggerDigits >= 7
            THEN to_value("Nanoseconds") ELSE to_value("Microseconds")

\* the start time alone is the finer one, and the record keeps its unit
C19_StartIsTheFiner ==
    /\ Returned
    /\ self.cfg_contents \in TimeCfgs
    /\ StartDigits >= 7
    /\ TriggerDigits \in 1..6
    /\ self.ts_base_unit = to_value("Nanoseconds")

----------------------------------------------------------------------------
(* C20: the layout of the dates.                                            *)

StartDate == trim(self.cfg_contents[StartLineIndex][1])

TriggerDate == trim(self.cfg_contents[TriggerLineIndex][1])

\* a date nn/nn/nnnn read with the layout of the identity line's revision
DateAsWritten(date) ==
    LET first == DigitsValue(SubSeq(date, 1, 2), 0)
        second == DigitsValue(SubSeq(date, 4, 5), 0)
        year == DigitsValue(SubSeq(date, 7, 10), 0)
    IN IF IsRev1991Input
       THEN [year |-> year, month |-> first, day |-> second]
       ELSE [year |-> year, month |-> second, day |-> first]

IsCalendarDate(d) == d.month \in 1..12 /\ d.day \in 1..DaysInMonth(d.year, d.month)

\* C20: the date of the start-time and of the trigger-time line is read as
\* month/day/year when the identity line gives Revision1991 and as
\* day/month/year when it gives Revision1999 or Revision2013, the same layout
\* for both lines; a date that is none in that layout ends decoding.
C20_DateLayoutByRevision ==
    (InParseCfg /\ self.cfg_contents \in DateCfgs) =>
        /\ loc.lines_read >= StartLineIndex =>
               IF IsCalendarDate(DateAsWritten(StartDate))
               THEN /\ self.builder.start_time.some
                    /\ self.builder.start_time.v.date = DateAsWritten(StartDate)
               ELSE /\ EndedOnLine(StartLineIndex)
                    /\ outcome.v = Err(InvalidValue(StartDate, "date", "date"))
        /\ (loc.lines_read >= TriggerLineIndex /\ ~EndedOnLine(StartLineIndex)) =>
               IF IsCalendarDate(DateAsWritten(TriggerDate))
               THEN /\ self.builder.trigger_time.some
                    /\ self.builder.trigger_time.v.date = DateAsWritten(TriggerDate)
               ELSE /\ EndedOnLine(TriggerLineIndex)
                    /\ outcome.v = Err(InvalidValue(TriggerDate, "date", "date"))

\* without a revision token 01/13/2000 is the 13th of January on both lines
C20_MonthFirstOnBothLines ==
    /\ pc = "cfg_format"
    /\ self.cfg_contents \in DateCfgs
    /\ Len(IdLine) = 2
    /\ StartDate = <<"0", "1", "/", "1", "3", "/", "2", "0", "0", "0">>
    /\ TriggerDate = StartDate
    /\ self.builder.start_time.v.date = [year |-> 2000, month |-> 1, day |-> 13]
    /\ self.builder.trigger_time.v.date = [year |-> 2000, month |-> 1, day |-> 13]

----------------------------------------------------------------------------
(* C21: the rows of the text data.                                          *)

\* parse_dat_ascii is running or ended: loc is its frame
InDatAscii == "rows" \in DOMAIN loc

\* a row with 2 + numAnalog + numStatus fields that each parse as their type
WellFormedRow(row) ==
    /\ Len(row) = 2 + self.num_analog_channels + self.num_status_channels
    /\ ParseUnsigned(trim(row[1])).some
    /\ trim(row[2]) = <<>> \/ ParseUnsigned(trim(row[2])).some
    /\ \A c \in 1..self.num_analog_channels : ParseF64(trim(row[2 + c])).some
    /\ \A c \in 1..self.num_status_channels :
           ParseI32(trim(row[2 + self.num_analog_channels + c])).some

\* the row number an error of parse_dat_ascii carries
RowOfError(e) ==
    IF "args" \notin DOMAIN e THEN None
    ELSE IF "row" \in DOMAIN e.args THEN Some(e.args.row)
    ELSE IF "line" \in DOMAIN e.args THEN Some(e.args.line)
    ELSE None

\* C21: in text mode a non-blank data line with a field count other than
\* 2 + numAnalog + numStatus, or with a token that does not parse as its field
\* type, is never passed: parse() returns an error that carries the number of
\* the row (counted from 0 or from 1); blank lines are skipped and are not
\* counted as rows.
C21_DefectiveRowIsRowError ==
    InDatAscii =>
        /\ loc.rows = NonBlank(self.ascii_dat_contents)
        /\ \A k \in 1..loc.i : WellFormedRow(loc.rows[k])
        /\ (Ended /\ loc.i < Len(loc.rows) /\ ~WellFormedRow(loc.rows[loc.i + 1])) =>
               /\ outcome.v.tag = "Err"
               /\ RowOfError(outcome.v.kind).some
               /\ RowOfError(outcome.v.kind).v \in {loc.i, loc.i + 1}

----------------------------------------------------------------------------
(* C22: the width of a binary record.                                       *)

BinaryFormats == {"Binary16", "Binary32", "Float32"}

\* the bytes one pass of the loop of parse_dat_binary takes from the cursor:
\* two u32, one value per analog channel, the status words it reads
RecordBytesRead(data_format, num_analog_channels, groups_read) ==
    4 + 4 + AnalogWidth(data_format) * num_analog_channels + 2 * groups_read

\* 4 + 4 + w*numAnalog + 2*ceil(numStatus/16), w = 2 for Binary16 and 4 for
\* Binary32 and Float32
RecordBytesOfLayout(data_format, num_analog_channels, num_status_channels) ==
    4 + 4 + (IF data_format = "Binary16" THEN 2 ELSE 4) * num_analog_channels
    + 2 * CeilDiv(num_status_channels, 16)

\* C22: for every declared numAnalog and numStatus, a record takes exactly
\* 4 + 4 + w*numAnalog + 2*ceil(numStatus/16) bytes from the data, so that
\* record r+1 starts at the byte after record r.
C22_RecordBytes ==
    call.fn = "status_values" =>
        \A data_format \in BinaryFormats :
            RecordBytesRead(data_format, self.num_analog_channels, call.groups_read)
                = RecordBytesOfLayout(data_format, self.num_analog_channels,
                                      self.num_status_channels)

----------------------------------------------------------------------------
(* C23, C26: the channel-count line.                                        *)

CountLine == self.cfg_contents[2]

\* the token without its last character when that is one of `letters`
StripSuffix(token, letters) ==
    IF token # <<>> /\ token[Len(token)] \in letters THEN DropLastChar(token) ELSE token

\* the count a token stands for, when it stands for one
CountOf(token, letters) == ParseUnsigned(StripSuffix(token, letters))

AnalogCountOnLine == CountOf(trim(CountLine[2]), {"A", "a"})

StatusCountOnLine == CountOf(trim(CountLine[3]), {"D", "d"})

\* the error the channel-count line calls for: the first missing or malformed
\* field among total, analog and status, with the label of that field
CountLineError ==
    LET n == Len(CountLine)
    IN IF ~ParseUnsigned(trim(CountLine[1])).some
       THEN Some([variant |-> "InvalidValue", value |-> trim(CountLine[1]),
                  label |-> "Channel Sizes: Total"])
       ELSE IF n < 2
       THEN Some([variant |-> "MissingLineElements", label |-> "Channel Sizes: Analog"])
       ELSE IF ~AnalogCountOnLine.some
       THEN Some([variant |-> "InvalidValue", value |-> trim(CountLine[2]),
                  label |-> "Channel Sizes: Analog"])
       ELSE IF n < 3
       THEN Some([variant |-> "MissingLineElements", label |-> "Channel Sizes: Status"])
       ELSE IF ~StatusCountOnLine.some
       THEN Some([variant |-> "InvalidValue", value |-> trim(CountLine[3]),
                  label |-> "Channel Sizes: Status"])
       ELSE None

\* the error e is the one `expected` describes
IsCountLineError(e, expected) ==
    /\ e.variant = expected.variant
    /\ IF e.variant = "InvalidValue"
       THEN e.value = expected.value /\ e.field = expected.label
       ELSE e.context = expected.label

CountLineRead == InParseCfg /\ self.cfg_contents \in CountCfgs /\ loc.lines_read >= 2

\* C23: a malformed analog count on the channel-count line ends parse_cfg
\* with InvalidValue whose field is the analog label of the channel sizes
\* and whose value is the raw token; a malformed status count carries the
\* status label, a malformed total the total label; a line with fewer than
\* three fields ends it with MissingLineElements labelled with the first
\* missing field.
C23_CountLineErrorsAreLabelled ==
    (CountLineRead /\ CountLineError.some) =>
        /\ EndedOnLine(2)
        /\ outcome.v.tag = "Err"
        /\ IsCountLineError(outcome.v.kind, CountLineError.v)

\* C26: the analog count is the integer left after a trailing A or a is
\* stripped, the status count the integer left after a trailing D or d is
\* stripped; only that letter is removed, never a digit of the count.
C26_OnlyTheSuffixLetterIsStripped ==
    (CountLineRead /\ ~EndedOnLine(2)) =>
        /\ AnalogCountOnLine = Some(self.num_analog_channels)
        /\ StatusCountOnLine = Some(self.num_status_channels)

----------------------------------------------------------------------------
(* C24: the streams of the separate-stream mode.                            *)

AnnotationErrors ==
    {ParseError("unable to read specified .hdr file"),
     ParseError("unable to read specified .inf file")}

\* C24: without a combined stream, parse() returns an error when the
\* configuration stream is missing and returns an error when the data stream
\* is missing; an absent annotation stream causes no error.
C24_MandatoryAndOptionalStreams ==
    (Ended /\ ~files.cff.some) =>
        /\ ~files.cfg.some => outcome.v.tag = "Err"
        /\ ~files.dat.some => outcome.v.tag = "Err"
        /\ (~files.hdr.some /\ ~files.inf.some /\ outcome.v.tag = "Err") =>
               outcome.v.kind \notin AnnotationErrors

----------------------------------------------------------------------------
(* C25: the field counts of the channel rows.                               *)

AnalogFields == 13

StatusFields == 5

AnalogRowAt(k) == self.cfg_contents[2 + k]

\* C25: an analog row is accepted only with exactly 13 fields and a status
\* row only with exactly 5; a row with fewer and a row with more fields end
\* parse_cfg with an error, and no channel is made from such a row.
C25_ExactFieldCounts ==
    (InParseCfg /\ self.cfg_contents \in RowCfgs) =>
        /\ \A k \in DOMAIN loc.analog_channels : Len(AnalogRowAt(k)) = AnalogFields
        /\ \A k \in DOMAIN loc.status_channels : Len(StatusRowAt(k)) = StatusFields
        /\ (loc.lines_read >= 3 /\ Len(AnalogRowAt(1)) # AnalogFields) =>
               EndedOnLine(3) /\ outcome.v.tag = "Err"
        /\ (loc.lines_read >= 4 /\ Len(StatusRowAt(1)) # StatusFields) =>
               EndedOnLine(4) /\ outcome.v.tag = "Err"

----------------------------------------------------------------------------
(* C27: the values of the status channels.                                  *)

\* C27: after every successful parse(), in text mode as in binary mode, every
\* value of every status channel's data is 0 or 1; a status token other than
\* 0 or 1 never reaches a channel.
C27_StatusValuesAreBits ==
    /\ Returned =>
           \A k \in DOMAIN outcome.v.v.status_channels :
               \A n \in DOMAIN outcome.v.v.status_channels[k].data :
                   outcome.v.v.status_channels[k].data[n] \in {0, 1}
    /\ \A k \in DOMAIN self.status_channels :
           \A n \in DOMAIN self.status_channels[k].data :
               self.status_channels[k].data[n] \in {0, 1}

----------------------------------------------------------------------------
(* C28: the subtraction in real_time (SpecTime).                            *)

\* the u32 that `sample_number - 1` wraps to for sample number 0
WrappedSampleNumber == [hi |-> Limb - 1, lo |-> Limb - 1]

\* C28: real_time is defined without wrap-around for every sample index a
\* data row can carry, 0 included: `sample_index - 1` never underflows, so
\* the call neither aborts nor returns (2^32 - 1) / rate.
C28_NoUnderflow ==
    CalledRealTime =>
        /\ call.result.tag # "Panic"
        /\ IsOk(call.result) =>
               [hi |-> call.result.v.hi, lo |-> call.result.v.lo] # WrappedSampleNumber

----------------------------------------------------------------------------
(* C29: the range of the time offsets (SpecOffset).                         *)

\* C29: parse_time_offset returns a value for every token: unset, an offset
\* of magnitude below 24 hours, or an error; a token whose offset reaches 24
\* hours in either direction is an error and never aborts the parse.
C29_OffsetIsValueOrError ==
    CalledOffset =>
        /\ call.result.tag \in {"Ok", "Err"}
        /\ (IsOk(call.result) /\ call.result.v.some) =>
               /\ call.result.v.v > 0 - SecondsPerDay
               /\ call.result.v.v < SecondsPerDay

----------------------------------------------------------------------------
(* C30: the combined stream handed over with separate streams.              *)

SeparateStreamGiven == files.cfg.some \/ files.dat.some \/ files.hdr.some \/ files.inf.some

\* the errors of the branch of parse() that reads the separate streams
SeparateStreamErrors ==
    {ParseError("unable to read specified .cfg file"),
     ParseError("you must specify either .cff or .cfg file"),
     ParseError("unable to read specified .dat file"),
     ParseError("unknown data format for data file."),
     ParseError("you must specify either .cff or .dat file")}
    \cup AnnotationErrors

\* C30: when the combined stream is given together with separate streams,
\* parse() takes every buffer from the combined stream only: the separate
\* streams are never read and have no effect on the record or the error.
C30_BuffersFromTheContainerOnly ==
    (files.cff.some /\ SeparateStreamGiven) =>
        /\ pc = "start" => ~ENABLED ReadCfg /\ ~ENABLED ReadCfgFails
        /\ pc = "dat_read" => ~ENABLED ReadDat /\ ~ENABLED ReadDatFails
        /\ pc = "annotations" => ~ENABLED ReadAnnotationFails
        /\ (pc \notin {"start", "cff_line"} /\ ~InLoadCff) =>
               /\ self.cfg_contents
                      = JoinLines(SectionLines(files.cff.v, "Cfg", Len(files.cff.v)))
               /\ self.ascii_dat_contents
                      = JoinLines(SectionLines(files.cff.v, "Dat", Len(files.cff.v)))
               /\ self.hdr_contents
                      = JoinLines(SectionLines(files.cff.v, "Hdr", Len(files.cff.v)))
               /\ self.inf_contents
                      = JoinLines(SectionLines(files.cff.v, "Inf", Len(files.cff.v)))
               /\ self.binary_dat_contents = <<>>
        /\ (Ended /\ outcome.v.tag = "Err") => outcome.v.kind \notin SeparateStreamErrors

\* parse() returned a record whose annotations are the container's, with
\* both separate annotation streams given
C30_ReturnedWithContainerAnnotations ==
    /\ Returned
    /\ files.cff.some
    /\ files.cfg.some /\ files.dat.some /\ files.hdr.some /\ files.inf.some
    /\ self.hdr_contents = JoinLines(SectionLines(files.cff.v, "Hdr", Len(files.cff.v)))
    /\ self.hdr_contents \notin Annotations
    /\ self.inf_contents \notin Annotations

====
